---- MODULE Spec2Model ----
(***************************************************************************)
(* Model of the asynchronous job + progress-streaming core of mp3-rss      *)
(* (the App variant, src/unnamed/part_000 lines 680-1445): the session     *)
(* registry (App.progressMap guarded by App.progressMux), the submit       *)
(* handler App.handleConvert, the streaming handler App.handleProgress,    *)
(* the pipeline goroutine App.convertVideo with its helpers, the download  *)
(* subprocess and the two streamOutput goroutines that forward its output. *)
(*                                                                         *)
(* Abstractions: a uuid is a fresh number; a chan string is the sequence   *)
(* of everything ever sent on it plus the number of messages already       *)
(* received (the buffer is the rest); the OS pipe between the download     *)
(* subprocess and a streamOutput goroutine never fills; an external tool   *)
(* is a nondeterministic choice over its outcomes; MP3Dir is a map from    *)
(* file names to contents, every job converts the same video, and the      *)
(* clock is read as a second that never decreases.  The string functions  *)
(* sanitizeFilename and escapeXML, the episode library (getEpisodes,       *)
(* deleteEpisode) and the page script of part_003 are modelled as well; a  *)
(* string is the sequence of its characters.                               *)
(***************************************************************************)
EXTENDS Integers, Sequences, FiniteSets, TLC

\* ---------------------------------------------------------------- bounds
MaxSessions == 1        \* accepted submissions over a run with clients
MaxJobs     == 2        \* accepted submissions over a run of concurrent jobs
MaxLines    == 3        \* lines the download subprocess prints in all
MaxTime     == 2        \* seconds of wall-clock time a run spans

\* ------------------------------------------------------ program constants
ChanCap   == 10                     \* make(chan string, 10)
SizeLimit == 524288000              \* 500*1024*1024

Ids      == 1..MaxSessions          \* uuids handed out by uuid.New()
JobIds   == 1..MaxJobs              \* the same, in a run of concurrent jobs
NoId     == 0                       \* the empty id parameter
Streams  == {"stdout", "stderr"}
Handlers == {"h1"}                  \* concurrent /convert requests
Clients  == {"c1"}                  \* concurrent /progress requests

VARIABLES
    progressMap,    \* App.progressMap: id -> channel (a channel is named by its id)
    progressMux,    \* App.progressMux: <<>> when free, else the holder
    nextId,         \* the next value uuid.New() returns
    hc,             \* handleConvert requests: pc, parameters, locals, last response
    hp,             \* handleProgress requests: pc and the id parameter
    pc,             \* convertVideo goroutine of each session: position
    normalize,      \* convertVideo: the normalize argument
    sourceFile,     \* convertVideo: which file sourceFile names
    tmpDir,         \* convertVideo: does the temporary directory exist
    sent,           \* channel: every message sent so far, in order
    rcvd,           \* channel: number of messages received so far
    closed,         \* channel: closed
    proc,           \* the yt-dlp download subprocess of each session
    fw,             \* the streamOutput goroutines of each session
    mp3dir,         \* config.MP3Dir: file name -> content
    crashed,        \* an unrecovered panic has terminated the process
    sawClosed,      \* ids whose channel closure a handleProgress has observed
    sizeProbe,      \* checkFileSize: sizeBytes, err of the running call
    events,         \* per channel: what the handleProgress receives returned, in order
    dstFile,        \* moveToFinalDestination: the file dstFile is open on
    call,           \* the last call of a library function: name, arguments, result
    evtSource       \* the page's EventSource of each browser and what onmessage saw

vars == <<progressMap, progressMux, nextId, hc, hp, pc, normalize, sourceFile,
          tmpDir, sent, rcvd, closed, proc, fw, mp3dir, crashed, sawClosed,
          sizeProbe, events, dstFile, call, evtSource>>

\* the sessions a run can create
Sessions == DOMAIN pc

\* ------------------------------------------------------------- messages
\* A message is its text; the text of a line of subprocess output is
\* abstracted to OutputLine.
Msg(t)     == t
OutputLine == "yt-dlp output line"

\* the messages whose text starts with "Error:"
ErrorTexts == {"Error: Failed to create temp directory",
               "Error: Failed to get video title",
               "Error: File too large (max 500MB)",
               "Error: Failed to create stdout pipe",
               "Error: Failed to create stderr pipe",
               "Error: Failed to start download",
               "Error: Download failed",
               "Error: Failed to check for downloaded files",
               "Error: No files were downloaded",
               "Error: No audio file found after download",
               "Error: MP3 conversion failed",
               "Error: Normalization failed, using original audio",
               "Error: Normalized file not found, using original audio",
               "Error: Normalized file has zero bytes, using original audio",
               "Error: Failed to move file"}

HasErrorPrefix(m) == m \in ErrorTexts

\* ---------------------------------------------------------------- URLs
\* A url is a sequence of tokens; strings.Contains and strings.HasPrefix
\* work on the token sequence.
Contains(s, sub) ==
    \E i \in 0..(Len(s) - Len(sub)) :
        \A j \in 1..Len(sub) : s[i + j] = sub[j]

HasPrefix(s, p) ==
    /\ Len(p) <= Len(s)
    /\ \A j \in 1..Len(p) : s[j] = p[j]

Urls == { <<>>,
          <<"https://", "www.", "youtube.com/", "watch", "?v=abc">>,
          <<"https://", "www.", "youtube.com/", "playlist", "?list=x">>,
          <<"https://", "youtu.be/", "abc">>,
          <<"http://", "youtu.be/", "abc">>,
          <<"youtu.be/", "abc">>,
          <<"https://", "www.", "youtube-nocookie.com/", "embed/abc">>,
          <<"https://", "m.", "youtube.com/", "shorts/abc">>,
          <<"https://", "www.", "youtube.com/", "shorts/abc">>,
          <<"https://", "vimeo.com/", "123">> }

\* validYoutubeURL without any pattern check
validYoutubeURL_AcceptsAll(url) == TRUE

\* part_000:813-818
validYoutubeURL(url) ==
    \/ Contains(url, <<"youtube.com/", "watch">>)
    \/ Contains(url, <<"youtube.com/", "playlist">>)
    \/ HasPrefix(url, <<"https://", "youtu.be/">>)
    \/ HasPrefix(url, <<"http://", "youtu.be/">>)
    \/ Contains(url, <<"youtube-nocookie.com/">>)
    \/ Contains(url, <<"m.", "youtube.com/">>)

\* ------------------------------------------------------------- channels
Buffered(s) == Len(sent[s]) - rcvd[s]
CanSend(s)  == ~closed[s] /\ Buffered(s) < ChanCap

\* ------------------------------------------------------------ the mutex
Free == <<>>
Lock(who)   == /\ progressMux = Free
               /\ progressMux' = who
Unlock(who) == /\ progressMux = who
               /\ progressMux' = Free

\* ------------------------------------------------------- the registry map
EmptyMap      == [i \in {} |-> 0]
MapPut(m, k, v) == [i \in (DOMAIN m) \cup {k} |-> IF i = k THEN v ELSE m[i]]
MapDelete(m, k) == [i \in (DOMAIN m) \ {k} |-> m[i]]

\* ------------------------------------------------------------------ Init
HcIdle == [pc |-> "idle", url |-> <<>>, normalize |-> FALSE, id |-> NoId,
           resp |-> "none"]
HpIdle == [pc |-> "idle", id |-> NoId, ch |-> NoId]
\* the temporary directory: does it exist, the downloaded file, converted.mp3
\* and normalized.mp3 ("absent", "empty" or "audio")
NoTmpDir == [exists |-> FALSE, orig |-> FALSE, converted |-> "absent",
             normalized |-> "absent"]

NoProbe == [err |-> FALSE, numeric |-> FALSE, size |-> -1]

\* no moveToFinalDestination call is running
NoDest == <<>>

\* no library function has been called yet
NoCall == [fn |-> "none", arg |-> <<>>, ret |-> <<>>]

\* a page that has not opened its EventSource: readyState, the session id
\* and the number of events onmessage has handled
NoEventSource == [state |-> "none", id |-> NoId, n |-> 0]

\* the state after construction, for the /progress requests, the sessions
\* and the browser pages of a run, the files MP3Dir starts with and the
\* string the string functions will be applied to
InitOf(clients, ids, pages, dir, input) ==
    /\ progressMap = EmptyMap
    /\ progressMux = Free
    /\ nextId = 1
    /\ hc = [h \in Handlers |-> HcIdle]
    /\ hp = [c \in clients |-> HpIdle]
    /\ pc = [s \in ids |-> "unborn"]
    /\ normalize = [s \in ids |-> FALSE]
    /\ sourceFile = [s \in ids |-> "none"]
    /\ tmpDir = [s \in ids |-> NoTmpDir]
    /\ sent = [s \in ids |-> <<>>]
    /\ rcvd = [s \in ids |-> 0]
    /\ closed = [s \in ids |-> FALSE]
    /\ proc = [s \in ids |-> "none"]
    /\ fw = [s \in ids |-> [f \in Streams |-> "off"]]
    /\ mp3dir = dir
    /\ crashed = FALSE
    /\ sawClosed = {}
    /\ sizeProbe = [s \in ids |-> NoProbe]
    /\ events = [s \in ids |-> <<>>]
    /\ dstFile = [s \in ids |-> NoDest]
    /\ call = [NoCall EXCEPT !.arg = input]
    /\ evtSource = [b \in pages |-> NoEventSource]

\* a server that starts with an empty MP3Dir and no browser page
InitWith(clients, ids) == InitOf(clients, ids, {}, EmptyMap, <<>>)

\* the server with the clients that will connect to /progress
Init == InitWith(Clients, Ids)

\* the server when no client ever connects to /progress
InitNoClients == InitWith({}, Ids)

\* the server when MaxJobs submissions can be accepted and no client connects
InitJobs == InitWith({}, JobIds)

\* ------------------------------------------------------- App.handleConvert
Methods == {"GET", "POST"}

\* handleConvert_Validate when uuid.New() returns the id it returned before
handleConvert_Validate_ReusesId(h) ==
    /\ ~crashed
    /\ hc[h].pc = "idle"
    /\ \E method \in Methods :
         IF method # "POST"
         THEN /\ hc' = [hc EXCEPT ![h] = [HcIdle EXCEPT !.resp = "error"]]
              /\ UNCHANGED nextId
         ELSE \E url \in Urls :
                IF url = <<>> \/ ~validYoutubeURL(url)
                THEN /\ hc' = [hc EXCEPT ![h] = [HcIdle EXCEPT !.resp = "error"]]
                     /\ UNCHANGED nextId
                ELSE \E norm \in BOOLEAN :
                       /\ nextId \in Sessions
                       /\ hc' = [hc EXCEPT ![h] = [pc |-> "L834", url |-> url,
                                                   normalize |-> norm,
                                                   id |-> nextId, resp |-> "none"]]
                       /\ UNCHANGED nextId
    /\ UNCHANGED <<progressMap, progressMux, hp, pc, normalize, sourceFile,
                   tmpDir, sent, rcvd, closed, proc, fw, mp3dir, crashed,
                   sawClosed, sizeProbe, events,
                   dstFile, call, evtSource>>

\* part_000:797-832: the method check, the url check, the validation, and
\* on acceptance uuid.New() and make(chan string, 10)
handleConvert_Validate(h) ==
    /\ ~crashed
    /\ hc[h].pc = "idle"
    /\ \E method \in Methods :
         IF method # "POST"
         THEN /\ hc' = [hc EXCEPT ![h] = [HcIdle EXCEPT !.resp = "error"]]
              /\ UNCHANGED nextId
         ELSE \E url \in Urls :
                IF url = <<>> \/ ~validYoutubeURL(url)
                THEN /\ hc' = [hc EXCEPT ![h] = [HcIdle EXCEPT !.resp = "error"]]
                     /\ UNCHANGED nextId
                ELSE \E norm \in BOOLEAN :
                       /\ nextId \in Sessions
                       /\ hc' = [hc EXCEPT ![h] = [pc |-> "L834", url |-> url,
                                                   normalize |-> norm,
                                                   id |-> nextId, resp |-> "none"]]
                       /\ nextId' = nextId + 1
    /\ UNCHANGED <<progressMap, progressMux, hp, pc, normalize, sourceFile,
                   tmpDir, sent, rcvd, closed, proc, fw, mp3dir, crashed,
                   sawClosed, sizeProbe, events,
                   dstFile, call, evtSource>>

\* part_000:834 app.progressMux.Lock()
handleConvert_Lock(h) ==
    /\ ~crashed
    /\ hc[h].pc = "L834"
    /\ Lock(<<"hc", h>>)
    /\ hc' = [hc EXCEPT ![h].pc = "L835"]
    /\ UNCHANGED <<progressMap, nextId, hp, pc, normalize, sourceFile,
                   tmpDir, sent, rcvd, closed, proc, fw, mp3dir, crashed,
                   sawClosed, sizeProbe, events,
                   dstFile, call, evtSource>>

\* part_000:835-836 app.progressMap[sessionId] = ch; Unlock()
handleConvert_Register(h) ==
    /\ ~crashed
    /\ hc[h].pc = "L835"
    /\ Unlock(<<"hc", h>>)
    /\ progressMap' = MapPut(progressMap, hc[h].id, hc[h].id)
    /\ hc' = [hc EXCEPT ![h].pc = "L839"]
    /\ UNCHANGED <<nextId, hp, pc, normalize, sourceFile,
                   tmpDir, sent, rcvd, closed, proc, fw, mp3dir, crashed,
                   sawClosed, sizeProbe, events,
                   dstFile, call, evtSource>>

\* handleConvert_Go without the go statement: no pipeline is started
handleConvert_Go_NoSpawn(h) ==
    /\ ~crashed
    /\ hc[h].pc = "L839"
    /\ hc' = [hc EXCEPT ![h] = [HcIdle EXCEPT !.pc = "L842", !.id = hc[h].id]]
    /\ UNCHANGED <<progressMap, progressMux, nextId, hp, pc, normalize,
                   sourceFile, tmpDir, sent, rcvd, closed, proc, fw, mp3dir,
                   crashed, sawClosed, sizeProbe, events,
                   dstFile, call, evtSource>>

\* part_000:839 go app.convertVideo(url, ch, sessionId, normalize)
handleConvert_Go(h) ==
    /\ ~crashed
    /\ hc[h].pc = "L839"
    /\ pc' = [pc EXCEPT ![hc[h].id] = "L1038"]
    /\ normalize' = [normalize EXCEPT ![hc[h].id] = hc[h].normalize]
    /\ hc' = [hc EXCEPT ![h] = [HcIdle EXCEPT !.pc = "L842", !.id = hc[h].id]]
    /\ UNCHANGED <<progressMap, progressMux, nextId, hp, sourceFile,
                   tmpDir, sent, rcvd, closed, proc, fw, mp3dir, crashed,
                   sawClosed, sizeProbe, events,
                   dstFile, call, evtSource>>

\* handleConvert_Respond when convertVideo is called without go: the
\* response is written after the pipeline has returned
handleConvert_Respond_AfterPipeline(h) ==
    /\ ~crashed
    /\ hc[h].pc = "L842"
    /\ pc[hc[h].id] = "exited"
    /\ hc' = [hc EXCEPT ![h] = [HcIdle EXCEPT !.resp = "session",
                                              !.id = hc[h].id]]
    /\ UNCHANGED <<progressMap, progressMux, nextId, hp, pc, normalize,
                   sourceFile, tmpDir, sent, rcvd, closed, proc, fw, mp3dir,
                   crashed, sawClosed, sizeProbe, events,
                   dstFile, call, evtSource>>

\* part_000:842-848 the JSON response carrying the session id
handleConvert_Respond(h) ==
    /\ ~crashed
    /\ hc[h].pc = "L842"
    /\ hc' = [hc EXCEPT ![h] = [HcIdle EXCEPT !.resp = "session",
                                              !.id = hc[h].id]]
    /\ UNCHANGED <<progressMap, progressMux, nextId, hp, pc, normalize,
                   sourceFile, tmpDir, sent, rcvd, closed, proc, fw, mp3dir,
                   crashed, sawClosed, sizeProbe, events,
                   dstFile, call, evtSource>>

\* ------------------------------------------------------ App.handleProgress
LookupIds == 0..(MaxSessions + 1)   \* 0 is the empty id; the last is never issued

\* part_000:853-858 read the id parameter; an empty id is answered at once
handleProgress_Request(c) ==
    /\ ~crashed
    /\ hp[c].pc = "idle"
    /\ \E id \in LookupIds :
         IF id = NoId
         THEN hp' = [hp EXCEPT ![c] = HpIdle]
         ELSE hp' = [hp EXCEPT ![c] = [pc |-> "L860", id |-> id, ch |-> NoId]]
    /\ UNCHANGED <<progressMap, progressMux, nextId, hc, pc, normalize,
                   sourceFile, tmpDir, sent, rcvd, closed, proc, fw, mp3dir,
                   crashed, sawClosed, sizeProbe, events,
                   dstFile, call, evtSource>>

\* handleProgress_Lock without the Lock: the lookup is reached without
\* holding the mutex
handleProgress_Lock_NoLock(c) ==
    /\ ~crashed
    /\ hp[c].pc = "L860"
    /\ hp' = [hp EXCEPT ![c].pc = "L861"]
    /\ UNCHANGED <<progressMap, progressMux, nextId, hc, pc, normalize,
                   sourceFile, tmpDir, sent, rcvd, closed, proc, fw, mp3dir,
                   crashed, sawClosed, sizeProbe, events,
                   dstFile, call, evtSource>>

\* part_000:860 app.progressMux.Lock()
handleProgress_Lock(c) ==
    /\ ~crashed
    /\ hp[c].pc = "L860"
    /\ Lock(<<"hp", c>>)
    /\ hp' = [hp EXCEPT ![c].pc = "L861"]
    /\ UNCHANGED <<progressMap, nextId, hc, pc, normalize, sourceFile,
                   tmpDir, sent, rcvd, closed, proc, fw, mp3dir, crashed,
                   sawClosed, sizeProbe, events,
                   dstFile, call, evtSource>>

\* handleProgress_Lookup without the exists check: streams whatever the
\* lookup returned (a nil channel for an id that is not there)
handleProgress_Lookup_NoExistsCheck(c) ==
    /\ ~crashed
    /\ hp[c].pc = "L861"
    /\ Unlock(<<"hp", c>>)
    /\ hp' = [hp EXCEPT ![c].pc = "L889",
                        ![c].ch = IF hp[c].id \in DOMAIN progressMap
                                  THEN progressMap[hp[c].id] ELSE NoId]
    /\ UNCHANGED <<progressMap, nextId, hc, pc, normalize, sourceFile,
                   tmpDir, sent, rcvd, closed, proc, fw, mp3dir, crashed,
                   sawClosed, sizeProbe, events,
                   dstFile, call, evtSource>>

\* part_000:861-880 ch, exists := app.progressMap[sessionId]; Unlock();
\* not found -> 400; no http.Flusher -> 500; otherwise start streaming
handleProgress_Lookup(c) ==
    /\ ~crashed
    /\ hp[c].pc = "L861"
    /\ Unlock(<<"hp", c>>)
    /\ IF hp[c].id \notin DOMAIN progressMap
       THEN hp' = [hp EXCEPT ![c] = HpIdle]
       ELSE \E flusherOk \in BOOLEAN :
              IF flusherOk
              THEN hp' = [hp EXCEPT ![c].pc = "L889",
                                    ![c].ch = progressMap[hp[c].id]]
              ELSE hp' = [hp EXCEPT ![c] = HpIdle]
    /\ UNCHANGED <<progressMap, nextId, hc, pc, normalize, sourceFile,
                   tmpDir, sent, rcvd, closed, proc, fw, mp3dir, crashed,
                   sawClosed, sizeProbe, events,
                   dstFile, call, evtSource>>

\* <-ch on a channel holding the oldest message not yet received and the
\* newest one
ChanHead_Newest(s) == sent[s][Len(sent[s])]

\* part_000:891 <-ch returns the oldest message in the buffer
ChanHead(s) == sent[s][rcvd[s] + 1]

\* part_000:891-900 case msg, ok := <-ch with ok: write the event (the write
\* may fail); a nil channel never delivers
handleProgress_Receive(c) ==
    /\ ~crashed
    /\ hp[c].pc = "L889"
    /\ hp[c].ch # NoId
    /\ Buffered(hp[c].ch) > 0
    /\ rcvd' = [rcvd EXCEPT ![hp[c].ch] = @ + 1]
    /\ events' = [events EXCEPT ![hp[c].ch] = Append(@, ChanHead(hp[c].ch))]
    /\ \E writeOk \in BOOLEAN :
         IF writeOk
         THEN UNCHANGED hp
         ELSE hp' = [hp EXCEPT ![c] = HpIdle]
    /\ UNCHANGED <<progressMap, progressMux, nextId, hc, pc, normalize,
                   sourceFile, tmpDir, sent, closed, proc, fw, mp3dir,
                   crashed, sawClosed, sizeProbe, dstFile, call, evtSource>>

\* part_000:891-895 case msg, ok := <-ch with !ok: the channel is closed and drained
handleProgress_Closed(c) ==
    /\ ~crashed
    /\ hp[c].pc = "L889"
    /\ hp[c].ch # NoId
    /\ Buffered(hp[c].ch) = 0
    /\ closed[hp[c].ch]
    /\ hp' = [hp EXCEPT ![c] = HpIdle]
    /\ sawClosed' = sawClosed \cup {hp[c].ch}
    /\ UNCHANGED <<progressMap, progressMux, nextId, hc, pc, normalize,
                   sourceFile, tmpDir, sent, rcvd, closed, proc, fw, mp3dir,
                   crashed, sizeProbe, events,
                   dstFile, call, evtSource>>

\* handleProgress_ClientGone when the handler also removes the registry
\* entry of the session it was streaming
handleProgress_ClientGone_Unregisters(c) ==
    /\ ~crashed
    /\ hp[c].pc = "L889"
    /\ hp' = [hp EXCEPT ![c] = HpIdle]
    /\ progressMap' = MapDelete(progressMap, hp[c].id)
    /\ UNCHANGED <<progressMux, nextId, hc, pc, normalize,
                   sourceFile, tmpDir, sent, rcvd, closed, proc, fw, mp3dir,
                   crashed, sawClosed, sizeProbe, events,
                   dstFile, call, evtSource>>

\* part_000:901-903 case <-clientGone
handleProgress_ClientGone(c) ==
    /\ ~crashed
    /\ hp[c].pc = "L889"
    /\ hp' = [hp EXCEPT ![c] = HpIdle]
    /\ UNCHANGED <<progressMap, progressMux, nextId, hc, pc, normalize,
                   sourceFile, tmpDir, sent, rcvd, closed, proc, fw, mp3dir,
                   crashed, sawClosed, sizeProbe, events,
                   dstFile, call, evtSource>>

\* -------------------------------------------------------- App.convertVideo
\* The table of the statements that send on ch: the message sent at each
\* position and the position reached after it; its arguments are the
\* positions reached after the publish error, after the zero-byte
\* normalization error and after the saved-as message.
SendStepsOf(publishFailed, normZeroBytes, saved) ==
    [L1038 |-> [msg |-> "Starting download...", next |-> "L1041"],
     L1043 |-> [msg |-> "Error: Failed to create temp directory", next |-> "L1032"],
     L1055 |-> [msg |-> "Error: Failed to get video title", next |-> "L1047"],
     L1137 |-> [msg |-> "Error: File too large (max 500MB)", next |-> "L1047"],
     L1161 |-> [msg |-> "Error: Failed to create stdout pipe", next |-> "L1047"],
     L1167 |-> [msg |-> "Error: Failed to create stderr pipe", next |-> "L1047"],
     L1172 |-> [msg |-> "Error: Failed to start download", next |-> "L1047"],
     L1189 |-> [msg |-> "Error: Download failed", next |-> "L1047"],
     L1199 |-> [msg |-> "Error: Failed to check for downloaded files", next |-> "L1047"],
     L1204 |-> [msg |-> "Error: No files were downloaded", next |-> "L1047"],
     L1072 |-> [msg |-> "Error: No audio file found after download", next |-> "L1047"],
     L1080 |-> [msg |-> "Converting to MP3 format with optimal quality...", next |-> "L1091"],
     L1093 |-> [msg |-> "Error: MP3 conversion failed", next |-> "L1094"],
     L1094 |-> [msg |-> "FFmpeg output", next |-> "L1047"],
     L1213 |-> [msg |-> "Applying audio normalization...", next |-> "L1226"],
     L1228 |-> [msg |-> "Error: Normalization failed, using original audio", next |-> "L1229"],
     L1229 |-> [msg |-> "FFmpeg output", next |-> "L1109"],
     L1235 |-> [msg |-> "Error: Normalized file not found, using original audio", next |-> "L1109"],
     L1241 |-> [msg |-> "Error: Normalized file has zero bytes, using original audio", next |-> normZeroBytes],
     L1245 |-> [msg |-> "Normalization complete!", next |-> "L1104"],
     L1111 |-> [msg |-> "Error: Failed to move file", next |-> publishFailed],
     L1115 |-> [msg |-> "Successfully saved as", next |-> saved],
     L1116 |-> [msg |-> "Conversion complete!", next |-> "L1117"],
     L1117 |-> [msg |-> "DONE", next |-> "L1047"]]

\* the table when the publish error is not followed by a return
SendSteps_PublishErrorFallsThrough == SendStepsOf("L1115", "L1109", "L1116")

\* the table when a zero-byte normalized file ends the job
SendSteps_NormFailureAborts == SendStepsOf("L1047", "L1047", "L1116")

\* the table when DONE is sent without "Conversion complete!" before it
SendSteps_DoneWithoutComplete == SendStepsOf("L1047", "L1109", "L1117")

\* The statements of convertVideo and its helpers that send on ch: the
\* message sent at each position and the position reached after it.
SendSteps == SendStepsOf("L1047", "L1109", "L1116")

\* ch <- msg in convertVideo, checkFileSize, downloadVideo and normalizeAudio:
\* blocks while the buffer is full
convertVideo_Send(s) ==
    /\ ~crashed
    /\ pc[s] \in DOMAIN SendSteps
    /\ CanSend(s)
    /\ sent' = [sent EXCEPT ![s] = Append(@, Msg(SendSteps[pc[s]].msg))]
    /\ pc' = [pc EXCEPT ![s] = SendSteps[pc[s]].next]
    /\ UNCHANGED <<progressMap, progressMux, nextId, hc, hp, normalize,
                   sourceFile, tmpDir, rcvd, closed, proc, fw, mp3dir,
                   crashed, sawClosed, sizeProbe, events,
                   dstFile, call, evtSource>>

\* part_000:1041-1050 os.MkdirTemp and the deferred os.RemoveAll
convertVideo_MkdirTemp(s) ==
    /\ ~crashed
    /\ pc[s] = "L1041"
    /\ \E ok \in BOOLEAN :
         IF ok
         THEN /\ tmpDir' = [tmpDir EXCEPT ![s].exists = TRUE]
              /\ pc' = [pc EXCEPT ![s] = "L1053"]
         ELSE /\ pc' = [pc EXCEPT ![s] = "L1043"]
              /\ UNCHANGED tmpDir
    /\ UNCHANGED <<progressMap, progressMux, nextId, hc, hp, normalize,
                   sourceFile, sent, rcvd, closed, proc, fw, mp3dir,
                   crashed, sawClosed, sizeProbe, events,
                   dstFile, call, evtSource>>

\* part_000:1053-1057 and 1121-1128 yt-dlp --print title
getVideoTitle(s) ==
    /\ ~crashed
    /\ pc[s] = "L1053"
    /\ \E ok \in BOOLEAN :
         pc' = [pc EXCEPT ![s] = IF ok THEN "L1060" ELSE "L1055"]
    /\ UNCHANGED <<progressMap, progressMux, nextId, hc, hp, normalize,
                   sourceFile, tmpDir, sent, rcvd, closed, proc, fw, mp3dir,
                   crashed, sawClosed, sizeProbe, events,
                   dstFile, call, evtSource>>

\* what the size probe can answer: the command fails, prints something that
\* is not a number, or prints a number
SizeProbes ==
    {[err |-> TRUE, numeric |-> FALSE, size |-> 0],
     [err |-> FALSE, numeric |-> FALSE, size |-> 0]}
    \cup {[err |-> FALSE, numeric |-> TRUE, size |-> n] :
             n \in {0, SizeLimit, SizeLimit + 1}}

\* the rejection condition with the ceiling itself rejected
TooLarge_AtCeiling(probe) ==
    ~probe.err /\ probe.numeric /\ probe.size >= SizeLimit

\* part_000:1134-1136 the condition under which checkFileSize rejects
TooLarge(probe) == ~probe.err /\ probe.numeric /\ probe.size > SizeLimit

\* part_000:1060 and 1132-1133 the size probe: yt-dlp --print filesize
checkFileSize_Probe(s) ==
    /\ ~crashed
    /\ pc[s] = "L1060"
    /\ \E probe \in SizeProbes :
         sizeProbe' = [sizeProbe EXCEPT ![s] = probe]
    /\ pc' = [pc EXCEPT ![s] = "L1134"]
    /\ UNCHANGED <<progressMap, progressMux, nextId, hc, hp, normalize,
                   sourceFile, tmpDir, sent, rcvd, closed, proc, fw, mp3dir,
                   crashed, sawClosed, events,
                   dstFile, call, evtSource>>

\* part_000:1134-1141 and 1060-1062: parse the probe's output and compare it
\* with the limit
checkFileSize(s) ==
    /\ ~crashed
    /\ pc[s] = "L1134"
    /\ pc' = [pc EXCEPT ![s] = IF TooLarge(sizeProbe[s]) THEN "L1137"
                                ELSE "L1159"]
    /\ sizeProbe' = [sizeProbe EXCEPT ![s] = NoProbe]
    /\ UNCHANGED <<progressMap, progressMux, nextId, hc, hp, normalize,
                   sourceFile, tmpDir, sent, rcvd, closed, proc, fw, mp3dir,
                   crashed, sawClosed, events,
                   dstFile, call, evtSource>>

\* ------------------------------------------------------- App.downloadVideo
\* part_000:1146-1185 create the pipes, start yt-dlp, start both streamOutput
\* goroutines
downloadVideo_Start(s) ==
    /\ ~crashed
    /\ pc[s] = "L1159"
    /\ \E outcome \in {"stdout pipe", "stderr pipe", "start", "ok"} :
         IF outcome = "ok"
         THEN /\ proc' = [proc EXCEPT ![s] = "running"]
              /\ fw' = [fw EXCEPT ![s] = [f \in Streams |-> "scan"]]
              /\ pc' = [pc EXCEPT ![s] = "L1188"]
         ELSE /\ pc' = [pc EXCEPT ![s] =
                          CASE outcome = "stdout pipe" -> "L1161"
                            [] outcome = "stderr pipe" -> "L1167"
                            [] OTHER -> "L1172"]
              /\ UNCHANGED <<proc, fw>>
    /\ UNCHANGED <<progressMap, progressMux, nextId, hc, hp, normalize,
                   sourceFile, tmpDir, sent, rcvd, closed, mp3dir,
                   crashed, sawClosed, sizeProbe, events,
                   dstFile, call, evtSource>>

\* the yt-dlp download subprocess exits, with or without a downloaded file
ytdlp_Exit(s) ==
    /\ ~crashed
    /\ proc[s] = "running"
    /\ \E code \in {0, 1}, file \in BOOLEAN :
         /\ proc' = [proc EXCEPT ![s] = IF code = 0 THEN "exit0" ELSE "exit1"]
         /\ tmpDir' = [tmpDir EXCEPT ![s].orig = file /\ tmpDir[s].exists]
    /\ UNCHANGED <<progressMap, progressMux, nextId, hc, hp, pc, normalize,
                   sourceFile, sent, rcvd, closed, fw, mp3dir,
                   crashed, sawClosed, sizeProbe, events,
                   dstFile, call, evtSource>>

\* the lines of subprocess output the streamOutput goroutines have read so far
LinesRead(s) ==
    Cardinality({i \in 1..Len(sent[s]) : sent[s][i] = OutputLine})
    + Cardinality({f \in Streams : fw[s][f] = "send"})

\* part_000:1343 scanner.Scan() returns true: the subprocess printed one more
\* line on this stream (lines already read into the scanner's buffer are
\* still returned after the subprocess has exited and the pipe is closed)
streamOutput_Scan(s, f) ==
    /\ ~crashed
    /\ fw[s][f] = "scan"
    /\ LinesRead(s) < MaxLines
    /\ fw' = [fw EXCEPT ![s][f] = "send"]
    /\ UNCHANGED <<progressMap, progressMux, nextId, hc, hp, pc, normalize,
                   sourceFile, tmpDir, sent, rcvd, closed, proc, mp3dir,
                   crashed, sawClosed, sizeProbe, events,
                   dstFile, call, evtSource>>

\* part_000:1343 scanner.Scan() returns false: end of file after the
\* subprocess exited, or the read end closed by cmd.Wait
streamOutput_Eof(s, f) ==
    /\ ~crashed
    /\ fw[s][f] = "scan"
    /\ proc[s] # "running"
    /\ fw' = [fw EXCEPT ![s][f] = "done"]
    /\ UNCHANGED <<progressMap, progressMux, nextId, hc, hp, pc, normalize,
                   sourceFile, tmpDir, sent, rcvd, closed, proc, mp3dir,
                   crashed, sawClosed, sizeProbe, events,
                   dstFile, call, evtSource>>

\* part_000:1344 ch <- scanner.Text(): blocks while the buffer is full
streamOutput_Send(s, f) ==
    /\ ~crashed
    /\ fw[s][f] = "send"
    /\ CanSend(s)
    /\ sent' = [sent EXCEPT ![s] = Append(@, OutputLine)]
    /\ fw' = [fw EXCEPT ![s][f] = "scan"]
    /\ UNCHANGED <<progressMap, progressMux, nextId, hc, hp, pc, normalize,
                   sourceFile, tmpDir, rcvd, closed, proc, mp3dir,
                   crashed, sawClosed, sizeProbe, events,
                   dstFile, call, evtSource>>

\* part_000:1344 ch <- scanner.Text() on a closed channel: the goroutine
\* panics and the runtime terminates the process
streamOutput_Panic(s, f) ==
    /\ ~crashed
    /\ fw[s][f] = "send"
    /\ closed[s]
    /\ crashed' = TRUE
    /\ UNCHANGED <<progressMap, progressMux, nextId, hc, hp, pc, normalize,
                   sourceFile, tmpDir, sent, rcvd, closed, proc, fw, mp3dir,
                   sawClosed, sizeProbe, events,
                   dstFile, call, evtSource>>

\* downloadVideo_Wait when a failed download is started again
downloadVideo_Wait_Retries(s) ==
    /\ ~crashed
    /\ pc[s] = "L1188"
    /\ proc[s] \in {"exit0", "exit1"}
    /\ pc' = [pc EXCEPT ![s] = IF proc[s] = "exit0" THEN "L1194" ELSE "L1159"]
    /\ UNCHANGED <<progressMap, progressMux, nextId, hc, hp, normalize,
                   sourceFile, tmpDir, sent, rcvd, closed, proc, fw, mp3dir,
                   crashed, sawClosed, sizeProbe, events,
                   dstFile, call, evtSource>>

\* part_000:1188-1191 downloadCmd.Wait() returns once the subprocess exited
downloadVideo_Wait(s) ==
    /\ ~crashed
    /\ pc[s] = "L1188"
    /\ proc[s] \in {"exit0", "exit1"}
    /\ pc' = [pc EXCEPT ![s] = IF proc[s] = "exit0" THEN "L1194" ELSE "L1189"]
    /\ UNCHANGED <<progressMap, progressMux, nextId, hc, hp, normalize,
                   sourceFile, tmpDir, sent, rcvd, closed, proc, fw, mp3dir,
                   crashed, sawClosed, sizeProbe, events,
                   dstFile, call, evtSource>>

\* part_000:1194 wg.Wait() returns once both streamOutput goroutines returned
downloadVideo_WgWait(s) ==
    /\ ~crashed
    /\ pc[s] = "L1194"
    /\ \A f \in Streams : fw[s][f] = "done"
    /\ pc' = [pc EXCEPT ![s] = "L1197"]
    /\ UNCHANGED <<progressMap, progressMux, nextId, hc, hp, normalize,
                   sourceFile, tmpDir, sent, rcvd, closed, proc, fw, mp3dir,
                   crashed, sawClosed, sizeProbe, events,
                   dstFile, call, evtSource>>

\* part_000:1197-1208 filepath.Glob(tmpDir/*.*) inside downloadVideo
downloadVideo_Glob(s) ==
    /\ ~crashed
    /\ pc[s] = "L1197"
    /\ \E globErr \in BOOLEAN :
         pc' = [pc EXCEPT ![s] = IF globErr THEN "L1199"
                                 ELSE IF ~tmpDir[s].orig THEN "L1204"
                                 ELSE "L1070"]
    /\ UNCHANGED <<progressMap, progressMux, nextId, hc, hp, normalize,
                   sourceFile, tmpDir, sent, rcvd, closed, proc, fw, mp3dir,
                   crashed, sawClosed, sizeProbe, events,
                   dstFile, call, evtSource>>

\* part_000:1070-1080 filepath.Glob(tmpDir/*.*) in convertVideo; sourceFile := files[0]
convertVideo_Glob(s) ==
    /\ ~crashed
    /\ pc[s] = "L1070"
    /\ IF tmpDir[s].orig
       THEN /\ sourceFile' = [sourceFile EXCEPT ![s] = "orig"]
            /\ pc' = [pc EXCEPT ![s] = "L1080"]
       ELSE /\ pc' = [pc EXCEPT ![s] = "L1072"]
            /\ UNCHANGED sourceFile
    /\ UNCHANGED <<progressMap, progressMux, nextId, hc, hp, normalize,
                   tmpDir, sent, rcvd, closed, proc, fw, mp3dir,
                   crashed, sawClosed, sizeProbe, events,
                   dstFile, call, evtSource>>

\* convertVideo_Ffmpeg when normalizeAudio is called whatever the flag says
convertVideo_Ffmpeg_AlwaysNormalizes(s) ==
    /\ ~crashed
    /\ pc[s] = "L1091"
    /\ \E out \in {"fail", "empty", "audio"} :
         IF out = "fail"
         THEN /\ pc' = [pc EXCEPT ![s] = "L1093"]
              /\ UNCHANGED <<tmpDir, sourceFile>>
         ELSE /\ tmpDir' = [tmpDir EXCEPT ![s].converted = out]
              /\ sourceFile' = [sourceFile EXCEPT ![s] = "converted"]
              /\ pc' = [pc EXCEPT ![s] = "L1213"]
    /\ UNCHANGED <<progressMap, progressMux, nextId, hc, hp, normalize,
                   sent, rcvd, closed, proc, fw, mp3dir, crashed, sawClosed,
                   sizeProbe, events, dstFile, call, evtSource>>

\* part_000:1083-1106 ffmpeg to converted.mp3; on success sourceFile := mp3File
\* and the normalize flag decides whether normalizeAudio is called
convertVideo_Ffmpeg(s) ==
    /\ ~crashed
    /\ pc[s] = "L1091"
    /\ \E out \in {"fail", "empty", "audio"} :
         IF out = "fail"
         THEN /\ pc' = [pc EXCEPT ![s] = "L1093"]
              /\ UNCHANGED <<tmpDir, sourceFile>>
         ELSE /\ tmpDir' = [tmpDir EXCEPT ![s].converted = out]
              /\ sourceFile' = [sourceFile EXCEPT ![s] = "converted"]
              /\ pc' = [pc EXCEPT ![s] = IF normalize[s] THEN "L1213" ELSE "L1109"]
    /\ UNCHANGED <<progressMap, progressMux, nextId, hc, hp, normalize,
                   sent, rcvd, closed, proc, fw, mp3dir, crashed, sawClosed, sizeProbe, events,
                   dstFile, call, evtSource>>

\* part_000:1217-1243 ffmpeg loudnorm to normalized.mp3 and the checks of
\* its exit status and of the file it wrote
normalizeAudio_Ffmpeg(s) ==
    /\ ~crashed
    /\ pc[s] = "L1226"
    /\ \E out \in {"fail", "absent", "empty", "audio"} :
         /\ pc' = [pc EXCEPT ![s] =
                     CASE out = "fail"   -> "L1228"
                       [] out = "absent" -> "L1235"
                       [] out = "empty"  -> "L1241"
                       [] OTHER          -> "L1245"]
         /\ IF out = "fail"
            THEN UNCHANGED tmpDir
            ELSE tmpDir' = [tmpDir EXCEPT ![s].normalized = out]
    /\ UNCHANGED <<progressMap, progressMux, nextId, hc, hp, normalize,
                   sourceFile, sent, rcvd, closed, proc, fw, mp3dir,
                   crashed, sawClosed, sizeProbe, events,
                   dstFile, call, evtSource>>

\* part_000:1102-1105 normalizeAudio returned no error: sourceFile := normalizedFile
convertVideo_UseNormalized(s) ==
    /\ ~crashed
    /\ pc[s] = "L1104"
    /\ sourceFile' = [sourceFile EXCEPT ![s] = "normalized"]
    /\ pc' = [pc EXCEPT ![s] = "L1109"]
    /\ UNCHANGED <<progressMap, progressMux, nextId, hc, hp, normalize,
                   tmpDir, sent, rcvd, closed, proc, fw, mp3dir,
                   crashed, sawClosed, sizeProbe, events,
                   dstFile, call, evtSource>>

\* the content of the file sourceFile names: "empty" or "audio"
SourceContent(s) ==
    IF sourceFile[s] = "normalized" THEN tmpDir[s].normalized
    ELSE tmpDir[s].converted

\* ------------------------------------------------------- sanitizeFilename
\* A string is the sequence of its characters; a file name may also hold
\* the tokens "_NORM_", "_" and ".mp3" its format string puts in.
ReservedChars == {"/", "\\", ":", "*", "?", "\"", "<", ">", "|"}

\* the nine reserved characters in the order part_000:1326 spells them
AllReserved == <<"/", "\\", ":", "*", "?", "\"", "<", ">", "|">>

\* the dashes the special case of part_000:1326-1328 returns
SpecialCaseDashes == 8

\* part_000:1324-1338
sanitizeFilename(filename) ==
    IF filename = AllReserved
    THEN [i \in 1..SpecialCaseDashes |-> "-"]
    ELSE [i \in 1..Len(filename) |->
            IF filename[i] \in ReservedChars THEN "-" ELSE filename[i]]

\* ---------------------------------------------- App.moveToFinalDestination
\* every job converts the same video, so getVideoTitle resolves to the same
\* title
VideoTitle == <<"T", ":">>

\* time.Now() truncated to the second
Times == 1..MaxTime

\* part_000:1255 the longest safeTitle that is kept whole
TitleLimit == 100

\* part_000:1261 time.Now().Format("20060102_150405"): the text of the second
Format(timestamp) == ToString(timestamp)

\* part_000:1252-1268 Title_NORM_timestamp.mp3 or Title_timestamp.mp3
finalFilename(videoTitle, norm, timestamp) ==
    LET safeTitle == sanitizeFilename(videoTitle)
        kept == IF Len(safeTitle) > TitleLimit
                THEN SubSeq(safeTitle, 1, TitleLimit) ELSE safeTitle
    IN kept \o (IF norm THEN <<"_NORM_">> ELSE <<"_">>)
            \o <<Format(timestamp), ".mp3">>

\* the second a published file name was formatted from
TimeOf(name) == CHOOSE t \in Times : Format(t) = name[Len(name) - 1]

\* the content of a file of MP3Dir: the job that wrote it and what it
\* wrote: "partial", "empty", or the name of the temporary file it is a
\* full copy of
FileOf(s, what) == [job |-> s, file |-> what]

\* part_000:1270-1321: MP3Dir and the error returned, for each way the copy
\* of job s's source file to dstFile can end (os.Create truncates a file
\* that is already there)
moveToFinalDestination(dir, destFile, s, src, content, how) ==
    CASE how = "open fails"   -> [dir |-> dir, err |-> TRUE]
      [] how = "create fails" -> [dir |-> dir, err |-> TRUE]
      [] how = "copy fails, removed" ->
            [dir |-> MapDelete(dir, destFile), err |-> TRUE]
      [] how = "copy fails, not removed" ->
            [dir |-> MapPut(dir, destFile, FileOf(s, "partial")), err |-> TRUE]
      [] how = "stat fails" ->
            [dir |-> MapDelete(dir, destFile), err |-> TRUE]
      [] OTHER ->
            IF content = "empty"
            THEN [dir |-> MapPut(dir, destFile, FileOf(s, "empty")),
                  err |-> TRUE]
            ELSE [dir |-> MapPut(dir, destFile, FileOf(s, src)),
                  err |-> FALSE]

CopyOutcomes == {"open fails", "create fails", "copy fails, removed",
                 "copy fails, not removed", "stat fails", "copied"}

\* part_000:1109, 1250-1286 the call of moveToFinalDestination up to
\* os.Create, which leaves an empty file under the final name; the clock
\* does not run backwards
convertVideo_Publish(s) ==
    /\ ~crashed
    /\ pc[s] = "L1109"
    /\ \E how \in {"open fails", "create fails", "created"}, now \in Times :
         LET name == finalFilename(VideoTitle, normalize[s], now)
             r == moveToFinalDestination(mp3dir, name, s, sourceFile[s],
                                         SourceContent(s), how)
         IN /\ \A n \in DOMAIN mp3dir : TimeOf(n) <= now
            /\ IF how = "created"
               THEN /\ mp3dir' = MapPut(mp3dir, name, FileOf(s, "empty"))
                    /\ dstFile' = [dstFile EXCEPT ![s] = name]
                    /\ pc' = [pc EXCEPT ![s] = "L1293"]
               ELSE /\ mp3dir' = r.dir
                    /\ pc' = [pc EXCEPT ![s] = "L1111"]
                    /\ UNCHANGED dstFile
    /\ UNCHANGED <<progressMap, progressMux, nextId, hc, hp, normalize,
                   sourceFile, tmpDir, sent, rcvd, closed, proc, fw,
                   crashed, sawClosed, sizeProbe, events, call, evtSource>>

\* part_000:1293-1320 io.Copy into the created file, the check of the copy
\* and the return to part_000:1110
moveToFinalDestination_Copy(s) ==
    /\ ~crashed
    /\ pc[s] = "L1293"
    /\ \E how \in CopyOutcomes \ {"open fails", "create fails"} :
         LET r == moveToFinalDestination(mp3dir, dstFile[s], s, sourceFile[s],
                                         SourceContent(s), how)
         IN /\ mp3dir' = r.dir
            /\ pc' = [pc EXCEPT ![s] = IF r.err THEN "L1111" ELSE "L1115"]
    /\ dstFile' = [dstFile EXCEPT ![s] = NoDest]
    /\ UNCHANGED <<progressMap, progressMux, nextId, hc, hp, normalize,
                   sourceFile, tmpDir, sent, rcvd, closed, proc, fw,
                   crashed, sawClosed, sizeProbe, events, call, evtSource>>

\* ------------------------------------------- convertVideo's deferred calls
\* convertVideo_RemoveAll when the deferred os.RemoveAll is given MP3Dir
convertVideo_RemoveAll_OfMP3Dir(s) ==
    /\ ~crashed
    /\ pc[s] = "L1047"
    /\ mp3dir' = EmptyMap
    /\ pc' = [pc EXCEPT ![s] = "L1032"]
    /\ UNCHANGED <<progressMap, progressMux, nextId, hc, hp, normalize,
                   sourceFile, tmpDir, sent, rcvd, closed, proc, fw,
                   crashed, sawClosed, sizeProbe, events, dstFile, call,
                   evtSource>>

\* part_000:1046-1050 os.RemoveAll(tmpDir); a failure is only logged
convertVideo_RemoveAll(s) ==
    /\ ~crashed
    /\ pc[s] = "L1047"
    /\ \E ok \in BOOLEAN :
         IF ok THEN tmpDir' = [tmpDir EXCEPT ![s] = NoTmpDir]
               ELSE UNCHANGED tmpDir
    /\ pc' = [pc EXCEPT ![s] = "L1032"]
    /\ UNCHANGED <<progressMap, progressMux, nextId, hc, hp, normalize,
                   sourceFile, sent, rcvd, closed, proc, fw, mp3dir,
                   crashed, sawClosed, sizeProbe, events,
                   dstFile, call, evtSource>>

\* convertVideo_Lock when the deferred function closes the channel before
\* it takes the mutex and removes the entry
convertVideo_Lock_ClosesFirst(s) ==
    /\ ~crashed
    /\ pc[s] = "L1032"
    /\ Lock(<<"cv", s>>)
    /\ closed' = [closed EXCEPT ![s] = TRUE]
    /\ pc' = [pc EXCEPT ![s] = "L1033"]
    /\ UNCHANGED <<progressMap, nextId, hc, hp, normalize, sourceFile,
                   tmpDir, sent, rcvd, proc, fw, mp3dir, crashed,
                   sawClosed, sizeProbe, events, dstFile, call, evtSource>>

\* part_000:1032 app.progressMux.Lock()
convertVideo_Lock(s) ==
    /\ ~crashed
    /\ pc[s] = "L1032"
    /\ Lock(<<"cv", s>>)
    /\ pc' = [pc EXCEPT ![s] = "L1033"]
    /\ UNCHANGED <<progressMap, nextId, hc, hp, normalize, sourceFile,
                   tmpDir, sent, rcvd, closed, proc, fw, mp3dir, crashed,
                   sawClosed, sizeProbe, events,
                   dstFile, call, evtSource>>

\* convertVideo_Delete without the delete: the deferred cleanup unlocks and
\* closes but leaves the id in the map
convertVideo_Delete_Forgets(s) ==
    /\ ~crashed
    /\ pc[s] = "L1033"
    /\ Unlock(<<"cv", s>>)
    /\ pc' = [pc EXCEPT ![s] = "L1035"]
    /\ UNCHANGED <<progressMap, nextId, hc, hp, normalize, sourceFile,
                   tmpDir, sent, rcvd, closed, proc, fw, mp3dir, crashed,
                   sawClosed, sizeProbe, events,
                   dstFile, call, evtSource>>

\* part_000:1033-1034 delete(app.progressMap, sessionId); Unlock()
convertVideo_Delete(s) ==
    /\ ~crashed
    /\ pc[s] = "L1033"
    /\ Unlock(<<"cv", s>>)
    /\ progressMap' = MapDelete(progressMap, s)
    /\ pc' = [pc EXCEPT ![s] = "L1035"]
    /\ UNCHANGED <<nextId, hc, hp, normalize, sourceFile,
                   tmpDir, sent, rcvd, closed, proc, fw, mp3dir, crashed,
                   sawClosed, sizeProbe, events,
                   dstFile, call, evtSource>>

\* part_000:1035 close(ch); the goroutine returns
convertVideo_Close(s) ==
    /\ ~crashed
    /\ pc[s] = "L1035"
    /\ closed' = [closed EXCEPT ![s] = TRUE]
    /\ pc' = [pc EXCEPT ![s] = "exited"]
    /\ UNCHANGED <<progressMap, progressMux, nextId, hc, hp, normalize,
                   sourceFile, tmpDir, sent, rcvd, proc, fw, mp3dir,
                   crashed, sawClosed, sizeProbe, events,
                   dstFile, call, evtSource>>

\* ------------------------------------------------------------ the library
\* The string functions applied to an input string, and the functions of
\* the episode library called one at a time on an MP3Dir that holds any of
\* a few files.
MaxLen == 3             \* characters of a string handed to a string function

Chars == {"a", "&", "<", ">", "\"", "'", ";", ":", "/"}

\* the strings of at most MaxLen characters, and the nine reserved characters
Strings ==
    UNION {[1..n -> Chars] : n \in 0..MaxLen} \cup {AllReserved}

\* the names a file of MP3Dir can have
FileNames == { <<"a", ".mp3">>,
               <<"b", "_NORM_", "1", ".mp3">>,
               <<"c", ".txt">>,
               <<"d", ".MP3">>,
               <<"e", ".mp3", ".bak">>,
               <<"f", "_NORM_", ".txt">> }

\* a file that was in MP3Dir before the server started
OldFile == FileOf(NoId, "audio")

HasSuffix(s, x) ==
    /\ Len(x) <= Len(s)
    /\ \A j \in 1..Len(x) : s[Len(s) - Len(x) + j] = x[j]

TrimSuffix(s, x) ==
    IF HasSuffix(s, x) THEN SubSeq(s, 1, Len(s) - Len(x)) ELSE s

\* strings.ReplaceAll for a non-empty old
RECURSIVE ReplaceAll(_, _, _)
ReplaceAll(s, old, new) ==
    IF s = <<>> THEN <<>>
    ELSE IF HasPrefix(s, old)
         THEN new \o ReplaceAll(SubSeq(s, Len(old) + 1, Len(s)), old, new)
         ELSE <<Head(s)>> \o ReplaceAll(Tail(s), old, new)

\* escapeXML when the ampersands are replaced after the angle brackets
escapeXML_AmpersandLast(s) ==
    LET lt  == ReplaceAll(s, <<"<">>, <<"&", "l", "t", ";">>)
        gt  == ReplaceAll(lt, <<">">>, <<"&", "g", "t", ";">>)
    IN ReplaceAll(gt, <<"&">>, <<"&", "a", "m", "p", ";">>)

\* part_000:1438-1445
escapeXML(s) ==
    LET amp == ReplaceAll(s, <<"&">>, <<"&", "a", "m", "p", ";">>)
        lt  == ReplaceAll(amp, <<"<">>, <<"&", "l", "t", ";">>)
    IN ReplaceAll(lt, <<">">>, <<"&", "g", "t", ";">>)

\* the files filepath.Glob(MP3Dir/*.mp3) returns
GlobMp3(dir) == {n \in DOMAIN dir : HasSuffix(n, <<".mp3">>)}

\* a set as the list filepath.Glob returns it in
RECURSIVE Listing(_)
Listing(S) ==
    IF S = {} THEN <<>>
    ELSE LET n == CHOOSE n \in S : TRUE IN <<n>> \o Listing(S \ {n})

\* getEpisodes when every file of MP3Dir is listed
getEpisodes_EveryFile(dir, unreadable) ==
    LET files == Listing(DOMAIN dir \ unreadable)
    IN [i \in 1..Len(files) |->
          [Title |-> TrimSuffix(files[i], <<".mp3">>),
           File |-> files[i],
           IsNormalized |-> Contains(files[i], <<"_NORM_">>)]]

\* part_000:1357-1386 the episodes of MP3Dir when os.Stat fails for the
\* files of unreadable (such a file is skipped); Duration and PubDate are
\* left out
getEpisodes(dir, unreadable) ==
    LET files == Listing(GlobMp3(dir) \ unreadable)
    IN [i \in 1..Len(files) |->
          [Title |-> TrimSuffix(files[i], <<".mp3">>),
           File |-> files[i],
           IsNormalized |-> Contains(files[i], <<"_NORM_">>)]]

\* part_000:1390 filepath.Join(MP3Dir, filename) relative to MP3Dir: the
\* cleaned path, which for a name that starts with "./" is the rest
RECURSIVE Join(_)
Join(filename) ==
    IF HasPrefix(filename, <<".", "/">>)
    THEN Join(SubSeq(filename, 3, Len(filename)))
    ELSE filename

\* the ways the system calls of deleteEpisode can end for a file that exists
DeleteOutcomes == {"stat fails", "remove fails", "removed"}

\* deleteEpisode when a missing file is not an error
deleteEpisode_IgnoresMissing(dir, filename, how) ==
    IF Join(filename) \notin DOMAIN dir THEN [dir |-> dir, err |-> "nil"]
    ELSE IF how = "stat fails" THEN [dir |-> dir, err |-> "check file"]
    ELSE IF how = "remove fails" THEN [dir |-> dir, err |-> "delete file"]
    ELSE [dir |-> MapDelete(dir, Join(filename)), err |-> "nil"]

\* part_000:1389-1406 MP3Dir and the error returned
deleteEpisode(dir, filename, how) ==
    IF Join(filename) \notin DOMAIN dir
    THEN [dir |-> dir, err |-> "does not exist"]
    ELSE IF how = "stat fails" THEN [dir |-> dir, err |-> "check file"]
    ELSE IF how = "remove fails" THEN [dir |-> dir, err |-> "delete file"]
    ELSE [dir |-> MapDelete(dir, Join(filename)), err |-> "nil"]

\* sanitizeFilename is applied to the input string
sanitizeFilename_Call ==
    /\ call' = [fn |-> "sanitizeFilename", arg |-> call.arg,
                ret |-> sanitizeFilename(call.arg)]
    /\ UNCHANGED <<progressMap, progressMux, nextId, hc, hp, pc, normalize,
                   sourceFile, tmpDir, sent, rcvd, closed, proc, fw, mp3dir,
                   crashed, sawClosed, sizeProbe, events, dstFile, evtSource>>

\* escapeXML is applied to the input string
escapeXML_Call ==
    /\ call' = [fn |-> "escapeXML", arg |-> call.arg,
                ret |-> escapeXML(call.arg)]
    /\ UNCHANGED <<progressMap, progressMux, nextId, hc, hp, pc, normalize,
                   sourceFile, tmpDir, sent, rcvd, closed, proc, fw, mp3dir,
                   crashed, sawClosed, sizeProbe, events, dstFile, evtSource>>

\* app.getEpisodes() is called
getEpisodes_Call ==
    /\ \E unreadable \in SUBSET GlobMp3(mp3dir) :
         call' = [fn |-> "getEpisodes",
                  arg |-> [dir |-> mp3dir, unreadable |-> unreadable],
                  ret |-> getEpisodes(mp3dir, unreadable)]
    /\ UNCHANGED <<progressMap, progressMux, nextId, hc, hp, pc, normalize,
                   sourceFile, tmpDir, sent, rcvd, closed, proc, fw, mp3dir,
                   crashed, sawClosed, sizeProbe, events, dstFile, evtSource>>

\* app.deleteEpisode(filename) is called
deleteEpisode_Call ==
    /\ \E filename \in FileNames, how \in DeleteOutcomes :
         LET r == deleteEpisode(mp3dir, filename, how)
         IN /\ mp3dir' = r.dir
            /\ call' = [fn |-> "deleteEpisode",
                        arg |-> [dir |-> mp3dir, filename |-> filename,
                                 how |-> how],
                        ret |-> r.err]
    /\ UNCHANGED <<progressMap, progressMux, nextId, hc, hp, pc, normalize,
                   sourceFile, tmpDir, sent, rcvd, closed, proc, fw,
                   crashed, sawClosed, sizeProbe, events, dstFile, evtSource>>

\* no session and no request; the input is any of the strings
InitStrings == \E input \in Strings : InitOf({}, {}, {}, EmptyMap, input)

NextStrings ==
    \/ sanitizeFilename_Call
    \/ escapeXML_Call

\* the string functions applied to every input
StringSpec == InitStrings /\ [][NextStrings]_vars

\* no session and no request; MP3Dir starts with any of the files
InitLibrary ==
    \E D \in SUBSET FileNames :
        InitOf({}, {}, {}, [n \in D |-> OldFile], <<>>)

NextLibrary ==
    \/ getEpisodes_Call
    \/ deleteEpisode_Call

\* the episode library called any number of times
LibrarySpec == InitLibrary /\ [][NextLibrary]_vars

\* ------------------------------------------------------- App.handleDelete
\* the files MP3Dir holds when the server starts
OldNames == { <<"x", "_", "1", ".mp3">>,
              <<"x", "_", "1", ".MP3">>,
              <<"x", "_", "1", ".txt">> }

\* the filename parameters of the delete requests: none, the old files, a
\* path to one of them, a name with a backslash, a missing file and the
\* names the pipeline publishes under
RequestNames ==
    {<<>>, <<".", "/", "x", "_", "1", ".mp3">>,
     <<"x", "\\", "1", ".mp3">>, <<"y", "_", "1", ".mp3">>}
    \cup OldNames
    \cup {finalFilename(VideoTitle, norm, t) : norm \in BOOLEAN, t \in Times}

\* strings.ToLower on the tokens of a name
ToLower(filename) ==
    [i \in 1..Len(filename) |->
        IF filename[i] = ".MP3" THEN ".mp3" ELSE filename[i]]

\* the response of handleDelete and MP3Dir after it, without the check for
\* path separators
handleDelete_NoSeparatorCheck(method, filename, how) ==
    IF method # "POST" THEN [dir |-> mp3dir, resp |-> "Method not allowed"]
    ELSE IF filename = <<>>
    THEN [dir |-> mp3dir, resp |-> "No filename specified"]
    ELSE IF ~HasSuffix(ToLower(filename), <<".mp3">>)
    THEN [dir |-> mp3dir, resp |-> "Not an MP3 file"]
    ELSE LET r == deleteEpisode(mp3dir, filename, how)
         IN IF r.err # "nil"
            THEN [dir |-> r.dir, resp |-> "Failed to delete file"]
            ELSE [dir |-> r.dir, resp |-> "File deleted successfully"]

\* part_000:909-940 the response of handleDelete and MP3Dir after it
handleDelete(method, filename, how) ==
    IF method # "POST" THEN [dir |-> mp3dir, resp |-> "Method not allowed"]
    ELSE IF filename = <<>>
    THEN [dir |-> mp3dir, resp |-> "No filename specified"]
    ELSE IF Contains(filename, <<"/">>) \/ Contains(filename, <<"\\">>)
    THEN [dir |-> mp3dir, resp |-> "Invalid filename"]
    ELSE IF ~HasSuffix(ToLower(filename), <<".mp3">>)
    THEN [dir |-> mp3dir, resp |-> "Not an MP3 file"]
    ELSE LET r == deleteEpisode(mp3dir, filename, how)
         IN IF r.err # "nil"
            THEN [dir |-> r.dir, resp |-> "Failed to delete file"]
            ELSE [dir |-> r.dir, resp |-> "File deleted successfully"]

\* a request reaches handleDelete and is answered; a request that is not a
\* POST is answered before its form is read and before any file is looked
\* at, so one such request stands for all of them
handleDelete_Request ==
    /\ ~crashed
    /\ \E method \in Methods, filename \in RequestNames, how \in DeleteOutcomes :
         /\ method = "POST" \/ (filename = <<>> /\ how = "removed")
         /\ LET r == handleDelete(method, filename, how)
            IN /\ mp3dir' = r.dir
               /\ call' = [fn |-> "handleDelete",
                           arg |-> [method |-> method, filename |-> filename],
                           ret |-> r.resp]
    /\ UNCHANGED <<progressMap, progressMux, nextId, hc, hp, pc, normalize,
                   sourceFile, tmpDir, sent, rcvd, closed, proc, fw,
                   crashed, sawClosed, sizeProbe, events, dstFile, evtSource>>

\* -------------------------------------------------------- the browser page
\* part_003:33-34 the page has the session id of the /convert response and
\* opens an EventSource on /progress?id=...: the request reaches the server
connectToEventSource(b) ==
    /\ ~crashed
    /\ evtSource[b].state = "none"
    /\ hp[b].pc = "idle"
    /\ \E h \in Handlers :
         /\ hc[h].pc = "idle"
         /\ hc[h].resp = "session"
         /\ evtSource' = [evtSource EXCEPT ![b] =
                             [state |-> "open", id |-> hc[h].id, n |-> 0]]
         /\ hp' = [hp EXCEPT ![b] = [pc |-> "L860", id |-> hc[h].id,
                                     ch |-> NoId]]
    /\ UNCHANGED <<progressMap, progressMux, nextId, hc, pc, normalize,
                   sourceFile, tmpDir, sent, rcvd, closed, proc, fw, mp3dir,
                   crashed, sawClosed, sizeProbe, events, dstFile, call>>

\* the events that have reached the page or will: all that the handler has
\* written while the connection is up or was ended by the server after the
\* channel's closure, and no more than the page has seen once the
\* connection has failed
Delivered(b) ==
    IF hp[b].pc = "L889" \/ evtSource[b].id \in sawClosed
    THEN Len(events[evtSource[b].id])
    ELSE evtSource[b].n

\* onmessage when only DONE closes the EventSource
onmessage_ClosesOnDoneOnly(b) ==
    /\ evtSource[b].state = "open"
    /\ evtSource[b].n < Delivered(b)
    /\ LET message == events[evtSource[b].id][evtSource[b].n + 1]
       IN evtSource' = [evtSource EXCEPT
              ![b].n = @ + 1,
              ![b].state = IF message = "DONE" THEN "reloaded" ELSE "open"]
    /\ UNCHANGED <<progressMap, progressMux, nextId, hc, hp, pc, normalize,
                   sourceFile, tmpDir, sent, rcvd, closed, proc, fw, mp3dir,
                   crashed, sawClosed, sizeProbe, events, dstFile, call>>

\* part_003:36-54 evtSource.onmessage: DONE closes the EventSource and
\* reloads the page; "Conversion complete!" and every message that starts
\* with "Error:" close it
onmessage(b) ==
    /\ evtSource[b].state = "open"
    /\ evtSource[b].n < Delivered(b)
    /\ LET message == events[evtSource[b].id][evtSource[b].n + 1]
       IN evtSource' = [evtSource EXCEPT
              ![b].n = @ + 1,
              ![b].state = IF message = "DONE" THEN "reloaded"
                           ELSE IF \/ message = "Conversion complete!"
                                   \/ HasErrorPrefix(message)
                                THEN "closed"
                                ELSE "open"]
    /\ UNCHANGED <<progressMap, progressMux, nextId, hc, hp, pc, normalize,
                   sourceFile, tmpDir, sent, rcvd, closed, proc, fw, mp3dir,
                   crashed, sawClosed, sizeProbe, events, dstFile, call>>

\* part_003:56-61 evtSource.onerror: the connection has ended (the handler
\* returned or the server is gone) and nothing is left to handle
onerror(b) ==
    /\ evtSource[b].state = "open"
    /\ hp[b].pc = "idle" \/ crashed
    /\ evtSource[b].n = Delivered(b)
    /\ evtSource' = [evtSource EXCEPT ![b].state = "lost"]
    /\ UNCHANGED <<progressMap, progressMux, nextId, hc, hp, pc, normalize,
                   sourceFile, tmpDir, sent, rcvd, closed, proc, fw, mp3dir,
                   crashed, sawClosed, sizeProbe, events, dstFile, call>>

\* the page and the handleProgress request its EventSource makes
PageStep(b) ==
    \/ connectToEventSource(b)
    \/ onmessage(b)
    \/ onerror(b)
    \/ handleProgress_Lock(b)
    \/ handleProgress_Lookup(b)
    \/ handleProgress_Receive(b)
    \/ handleProgress_Closed(b)
    \/ handleProgress_ClientGone(b)

\* ------------------------------------------------------------------- Next
HandlerStep(h) ==
    \/ handleConvert_Validate(h)
    \/ handleConvert_Lock(h)
    \/ handleConvert_Register(h)
    \/ handleConvert_Go(h)
    \/ handleConvert_Respond(h)

ClientStep(c) ==
    \/ handleProgress_Request(c)
    \/ handleProgress_Lock(c)
    \/ handleProgress_Lookup(c)
    \/ handleProgress_Receive(c)
    \/ handleProgress_Closed(c)
    \/ handleProgress_ClientGone(c)

PipelineStep(s) ==
    \/ convertVideo_Send(s)
    \/ convertVideo_MkdirTemp(s)
    \/ getVideoTitle(s)
    \/ checkFileSize_Probe(s)
    \/ checkFileSize(s)
    \/ downloadVideo_Start(s)
    \/ downloadVideo_Wait(s)
    \/ downloadVideo_WgWait(s)
    \/ downloadVideo_Glob(s)
    \/ convertVideo_Glob(s)
    \/ convertVideo_Ffmpeg(s)
    \/ normalizeAudio_Ffmpeg(s)
    \/ convertVideo_UseNormalized(s)
    \/ convertVideo_Publish(s)
    \/ moveToFinalDestination_Copy(s)
    \/ convertVideo_RemoveAll(s)
    \/ convertVideo_Lock(s)
    \/ convertVideo_Delete(s)
    \/ convertVideo_Close(s)

ForwarderStep(s, f) ==
    \/ streamOutput_Scan(s, f)
    \/ streamOutput_Eof(s, f)
    \/ streamOutput_Send(s, f)
    \/ streamOutput_Panic(s, f)

\* the handlers, the pipelines, their subprocesses and forwarders
NextServer ==
    \/ \E h \in Handlers : HandlerStep(h)
    \/ \E s \in Sessions :
         \/ PipelineStep(s)
         \/ ytdlp_Exit(s)
         \/ \E f \in Streams : ForwarderStep(s, f)

Next ==
    \/ NextServer
    \/ \E c \in DOMAIN hp : ClientStep(c)

Spec == Init /\ [][Next]_vars

\* MaxJobs concurrent jobs whose download subprocess prints nothing, with no
\* client connected
NextJobs ==
    \/ \E h \in Handlers : HandlerStep(h)
    \/ \E s \in Sessions :
         \/ PipelineStep(s)
         \/ ytdlp_Exit(s)
         \/ \E f \in Streams : streamOutput_Eof(s, f)

JobsSpec == InitJobs /\ [][NextJobs]_vars

\* Fair scheduling of the goroutines of the server, every external tool
\* terminating, and no client ever connecting to /progress.
PipelineFairSpec ==
    /\ InitNoClients
    /\ [][NextServer]_vars
    /\ \A h \in Handlers : WF_vars(HandlerStep(h))
    /\ \A s \in Ids :
         /\ WF_vars(PipelineStep(s))
         /\ WF_vars(ytdlp_Exit(s))
         /\ \A f \in Streams : WF_vars(ForwarderStep(s, f))

\* the server and one browser page per client, which submits the form and
\* follows the job it was given
InitBrowser == InitOf(Clients, Ids, Clients, EmptyMap, <<>>)

NextBrowser ==
    \/ NextServer
    \/ \E b \in DOMAIN evtSource : PageStep(b)

BrowserSpec == InitBrowser /\ [][NextBrowser]_vars

\* the server started on an MP3Dir that holds the old files, with jobs
\* whose download prints nothing, no client streaming and delete requests
InitDelete == InitOf({}, Ids, {}, [n \in OldNames |-> OldFile], <<>>)

NextDelete ==
    \/ NextJobs
    \/ handleDelete_Request

DeleteSpec == InitDelete /\ [][NextDelete]_vars

\* two concurrent /progress requests
Consumers == {"c1", "c2"}

InitTwoConsumers == InitWith(Consumers, Ids)

\* the server and two clients, with a download subprocess that prints on its
\* standard error only
NextTwoConsumers ==
    \/ \E h \in Handlers : HandlerStep(h)
    \/ \E s \in Sessions :
         \/ PipelineStep(s)
         \/ ytdlp_Exit(s)
         \/ ForwarderStep(s, "stderr")
         \/ streamOutput_Eof(s, "stdout")
    \/ \E c \in DOMAIN hp : ClientStep(c)

\* the server with two clients that can stream the same session
TwoConsumersSpec == InitTwoConsumers /\ [][NextTwoConsumers]_vars

TypeOK ==
    /\ DOMAIN progressMap \subseteq Sessions
    /\ nextId \in Sessions \cup {Cardinality(Sessions) + 1}
    /\ \A s \in Sessions : rcvd[s] <= Len(sent[s])

\* ------------------------------------------------------------------ claims
Spawned(s)    == pc[s] # "unborn"
Registered(s) == s \in DOMAIN progressMap
CleanedUp(s)  == ~Registered(s) /\ closed[s]

\* C1: every accepted submission's pipeline task eventually reaches its
\* cleanup (registry entry removed, channel closed), also when no consumer
\* ever attaches to the session.
C1_PipelineReachesCleanup ==
    \A s \in Ids : Spawned(s) ~> CleanedUp(s)

\* C2: the registry entry of a session is present from the moment
\* handleConvert registers it until the deferred cleanup of its pipeline,
\* and absent ever after: a pipeline at or past the close has no entry, an
\* id whose channel a consumer saw closed has no entry, and an entry is
\* only ever added for an id whose pipeline has not started.
C2_RegistryLifetime ==
    /\ [](\A s \in Sessions :
            /\ pc[s] \notin {"unborn", "L1035", "exited"} => Registered(s)
            /\ (\A h \in Handlers :
                  hc[h].pc = "L839" /\ hc[h].id = s => Registered(s))
            /\ pc[s] \in {"L1035", "exited"} => ~Registered(s)
            /\ s \in sawClosed => ~Registered(s))
    /\ [][\A s \in Sessions :
            (s \in DOMAIN progressMap' /\ ~Registered(s))
                => (pc[s] = "unborn" /\ s \notin sawClosed)]_vars

\* a consumer saw the channel of a session closed, and a later request for
\* the same id is at its lookup
C2_Witness ==
    \E c \in DOMAIN hp : hp[c].pc = "L861" /\ hp[c].id \in sawClosed

\* the goroutine holding progressMux is inside a critical section whose
\* next statement releases it
HolderReleases ==
    /\ progressMux # Free
    /\ \/ \E h \in Handlers :
            progressMux = <<"hc", h>> /\ ENABLED handleConvert_Register(h)
       \/ \E c \in DOMAIN hp :
            progressMux = <<"hp", c>> /\ ENABLED handleProgress_Lookup(c)
       \/ \E s \in Sessions :
            progressMux = <<"cv", s>> /\ ENABLED convertVideo_Delete(s)

Blocked(s) == pc[s] \in DOMAIN SendSteps /\ Buffered(s) = ChanCap

RejectedUrls ==
    { <<>>,
      <<"youtu.be/", "abc">>,
      <<"https://", "www.", "youtube.com/", "shorts/abc">>,
      <<"https://", "vimeo.com/", "123">> }

\* C4: a rejected submission leaves the registry, the pipelines and the id
\* counter unchanged; an entry is registered and a pipeline started only by
\* a handler whose url passed validation.
C4_RejectedSubmissionHasNoEffect ==
    /\ [](\A h \in Handlers :
            hc[h].pc \in {"L834", "L835", "L839"}
                => hc[h].url \notin RejectedUrls)
    /\ [][/\ \A s \in Sessions :
                ((s \in DOMAIN progressMap' /\ ~Registered(s))
                   \/ (pc[s] = "unborn" /\ pc'[s] # "unborn"))
                => \E h \in Handlers :
                     /\ hc[h].id = s
                     /\ hc[h].pc \in {"L835", "L839"}
                     /\ hc[h].url \notin RejectedUrls
          /\ \A h \in Handlers :
                (hc[h].pc = "idle" /\ hc'[h].pc = "idle" /\ hc'[h] # hc[h])
                => UNCHANGED <<progressMap, pc, nextId>>]_vars

\* a submission has just been rejected while a session is registered
C4_Witness ==
    \E h \in Handlers :
        hc[h].pc = "idle" /\ hc[h].resp = "error" /\ progressMap # EmptyMap

\* C5: a handleProgress request whose id is not registered at its lookup
\* answers with an error at once: the lookup step can always be taken, ends
\* the request without entering the streaming loop, does not panic and
\* leaves the registry as it is.
C5_UnregisteredIdIsRefused ==
    /\ [](\A c \in DOMAIN hp :
            (~crashed /\ hp[c].pc = "L861" /\ ~Registered(hp[c].id))
                => ENABLED handleProgress_Lookup(c))
    /\ [][\A c \in DOMAIN hp :
            (hp[c].pc = "L861" /\ ~Registered(hp[c].id) /\ hp'[c] # hp[c])
                => (hp'[c].pc = "idle" /\ progressMap' = progressMap
                    /\ ~crashed')]_vars

\* a request for an id that was never issued is at its lookup while a
\* session is registered
C5_Witness ==
    \E c \in DOMAIN hp :
        /\ hp[c].pc = "L861"
        /\ hp[c].id = MaxSessions + 1
        /\ progressMap # EmptyMap

SuccessTexts == {"Successfully saved as", "Conversion complete!", "DONE"}

\* the errors after which normalizeAudio falls back to the transcoded file
NormErrorTexts ==
    {"Error: Normalization failed, using original audio",
     "Error: Normalized file not found, using original audio",
     "Error: Normalized file has zero bytes, using original audio"}

\* the errors that end the job
TerminalErrorTexts == ErrorTexts \ NormErrorTexts

\* the positions at which convertVideo is about to send a terminal error
FailurePcs ==
    {p \in DOMAIN SendSteps : SendSteps[p].msg \in TerminalErrorTexts}

\* the deferred calls and the end of convertVideo
CleanupPcs == {"L1047", "L1032", "L1033", "L1035", "exited"}

Sent(s, t)  == \E i \in 1..Len(sent[s]) : sent[s][i] = t
SentIn(s, T) == \E i \in 1..Len(sent[s]) : sent[s][i] \in T
Last(s)     == sent[s][Len(sent[s])]
EndsWithDone(s) ==
    /\ Len(sent[s]) >= 2
    /\ Last(s) = "DONE"
    /\ sent[s][Len(sent[s]) - 1] = "Conversion complete!"

\* C6: DONE is sent only right after "Conversion complete!" of the same
\* run, and nothing is ever sent after it, so it is sent at most once and
\* is the last message on the channel when the channel is closed.
C6_DoneIsLastAfterComplete ==
    \A s \in Sessions : \A i \in 1..Len(sent[s]) :
        sent[s][i] = "DONE" =>
            /\ i = Len(sent[s])
            /\ i > 1
            /\ sent[s][i - 1] = "Conversion complete!"

\* a run whose download printed output has sent DONE and closed its channel
C6_Witness ==
    \E s \in Sessions : closed[s] /\ EndsWithDone(s) /\ Sent(s, OutputLine)

\* C7: a run that hits a terminal failure (it is about to send, or has
\* sent, a terminal Error: message) has sent no success message and never
\* does; after the error it is in its cleanup; a run reaches its cleanup
\* only after a terminal error or after DONE; and once it has exited its
\* channel is closed and its registry entry is gone.
C7_FailureMeansErrorThenCleanup ==
    \A s \in Sessions :
        /\ (pc[s] \in FailurePcs \/ SentIn(s, TerminalErrorTexts))
               => ~SentIn(s, SuccessTexts)
        /\ SentIn(s, TerminalErrorTexts)
               => pc[s] \in CleanupPcs \cup {"L1094"}
        /\ pc[s] \in CleanupPcs
               => (SentIn(s, TerminalErrorTexts) \/ EndsWithDone(s))
        /\ (pc[s] = "exited" /\ SentIn(s, TerminalErrorTexts))
               => (closed[s] /\ ~Registered(s))

\* a run whose download subprocess exited non-zero has reported it and exited
C7_Witness ==
    \E s \in Sessions :
        /\ pc[s] = "exited"
        /\ proc[s] = "exit1"
        /\ Sent(s, "Error: Download failed")

\* C8: a failing run sends exactly one Error: message and nothing after it.
C8_SingleErrorIsLast ==
    \A s \in Sessions : \A i \in 1..Len(sent[s]) :
        sent[s][i] \in TerminalErrorTexts =>
            /\ i = Len(sent[s])
            /\ \A j \in 1..Len(sent[s]) : HasErrorPrefix(sent[s][j]) => j = i

\* C9: no run sends both an Error: message and a success message or DONE.
C9_ErrorExcludesSuccess ==
    \A s \in Sessions :
        ~(\E i \in 1..Len(sent[s]) : HasErrorPrefix(sent[s][i])
          /\ SentIn(s, SuccessTexts))

\* job s has published a full copy of its temporary file f
Published(s, f) == \E n \in DOMAIN mp3dir : mp3dir[n] = FileOf(s, f)

\* C10: when normalizeAudio fails after a successful transcode the job goes
\* on with the transcoded file: sourceFile stays converted.mp3, the run
\* reaches its cleanup only through the publishing step, a successful
\* publishing step writes the copy of converted.mp3, and the run then ends
\* with "Conversion complete!" and DONE.
C10_NormalizationFailureFallsBack ==
    /\ [](\A s \in Sessions :
            (pc[s] \in {"L1228", "L1229", "L1235", "L1241"}
                \/ SentIn(s, NormErrorTexts)) =>
            /\ sourceFile[s] = "converted"
            /\ tmpDir[s].converted \in {"empty", "audio"} \/ pc[s] \in CleanupPcs
            /\ pc[s] \in CleanupPcs =>
                 \/ Sent(s, "Error: Failed to move file")
                 \/ EndsWithDone(s))
    /\ [][\A s \in Sessions :
            (SentIn(s, NormErrorTexts) /\ pc[s] = "L1293" /\ pc'[s] = "L1115")
                => \E n \in DOMAIN mp3dir' : mp3dir'[n] = FileOf(s, "converted")]_vars

\* a run whose normalization failed has published converted.mp3, sent DONE
\* and exited
C10_Witness ==
    \E s \in Sessions :
        /\ SentIn(s, NormErrorTexts)
        /\ pc[s] = "exited"
        /\ EndsWithDone(s)
        /\ Published(s, "converted")

\* C11: no step of handleProgress (disconnect, write error, channel closed,
\* or any other) removes a registry entry or closes a channel; an entry is
\* removed only by the deferred cleanup of its own pipeline; and a request
\* that streams holds the channel that was created for the id it asked for.
C11_DisconnectLeavesSession ==
    /\ [][\A c \in DOMAIN hp :
            hp'[c] # hp[c] => (progressMap' = progressMap /\ closed' = closed)]_vars
    /\ [][\A s \in Sessions :
            (Registered(s) /\ s \notin DOMAIN progressMap')
                => (pc[s] = "L1033" /\ pc'[s] = "L1035")]_vars
    /\ [](\A c \in DOMAIN hp : hp[c].pc = "L889" => hp[c].ch = hp[c].id)

\* a request is at its lookup for a session that is still registered and
\* from whose channel an earlier request, since ended, received messages
C11_Witness ==
    \E c \in DOMAIN hp :
        /\ hp[c].pc = "L861"
        /\ Registered(hp[c].id)
        /\ rcvd[hp[c].id] > 0

\* C12: a pipeline in or past its registry cleanup has no temporary
\* directory left, and none is left when a panic ends the process.
C12_TempDirRemovedBeforeCleanup ==
    \A s \in Sessions :
        (pc[s] \in {"L1032", "L1033", "L1035", "exited"} \/ crashed)
            => ~tmpDir[s].exists

C14_PipelineIsSoleWriter ==
    \A s \in Sessions : \A f \in Streams :
        fw[s][f] \in {"scan", "send"} => pc[s] \in {"L1188", "L1194"}

\* the goroutines that are between Lock and Unlock
InCritical ==
    {<<"hc", h>> : h \in {x \in Handlers : hc[x].pc = "L835"}}
    \cup {<<"hp", c>> : c \in {x \in DOMAIN hp : hp[x].pc = "L861"}}
    \cup {<<"cv", s>> : s \in {x \in Sessions : pc[x] = "L1033"}}

\* C15: the goroutine between Lock and Unlock is the holder of the mutex
\* and there is at most one; the map changes only in a step of the holder
\* that also unlocks; and a lookup taken under the mutex ends in streaming
\* the registered channel or in not-found, according to the map at that
\* moment.
C15_RegistryAccessUnderMutex ==
    /\ [](InCritical = IF progressMux = Free THEN {} ELSE {progressMux})
    /\ [][progressMap' # progressMap
            => (progressMux # Free /\ progressMux' = Free)]_vars
    /\ [][\A c \in DOMAIN hp :
            (hp[c].pc = "L861" /\ hp'[c].pc # "L861") =>
                /\ progressMux = <<"hp", c>>
                /\ hp'[c].pc \in {"L889", "idle"}
                /\ hp'[c].pc = "L889" =>
                       (Registered(hp[c].id)
                        /\ hp'[c].ch = progressMap[hp[c].id])
                /\ ~Registered(hp[c].id) => hp'[c].pc = "idle"]_vars

\* a lookup waits for the mutex while a pipeline's cleanup holds it
C15_Witness ==
    \E c \in DOMAIN hp : \E s \in Sessions :
        /\ hp[c].pc = "L860"
        /\ hp[c].id = s
        /\ progressMux = <<"cv", s>>

\* C16: every registered id maps to the channel created for it, so two
\* ids never map to the same channel; ids are handed out in increasing
\* order and an entry is only ever added for an id that no pipeline has
\* used, so a removed id is never registered again.
C16_OneChannelPerIdNoReuse ==
    /\ [](\A s \in DOMAIN progressMap : progressMap[s] = s)
    /\ [](\A s \in Sessions : (Registered(s) \/ Spawned(s)) => s < nextId)
    /\ [][nextId' >= nextId]_vars
    /\ [][\A s \in Sessions :
            (~Registered(s) /\ s \in DOMAIN progressMap')
                => (pc[s] = "unborn" /\ ~closed[s] /\ sent[s] = <<>>)]_vars

\* a session is registered after another one was removed from the registry
C16_Witness ==
    \E s1 \in Sessions : \E s2 \in Sessions :
        /\ s1 # s2
        /\ pc[s1] = "exited"
        /\ Registered(s2)

\* C17: a pipeline runs only for an id a handler accepted and registered;
\* once the handler is past its go statement the pipeline of its id
\* exists; and a pipeline is started from the go statement only, once,
\* with the normalize flag of the submission.
C17_OnePipelinePerAcceptedSubmission ==
    /\ [](\A s \in Sessions :
            /\ Spawned(s) => s < nextId
            /\ s < nextId =>
                 \/ Spawned(s)
                 \/ \E h \in Handlers :
                      hc[h].id = s /\ hc[h].pc \in {"L834", "L835", "L839"})
    /\ [][\A s \in Sessions :
            /\ (pc[s] = "unborn" /\ pc'[s] # "unborn") =>
                 \E h \in Handlers :
                    /\ hc[h].pc = "L839" /\ hc[h].id = s
                    /\ Registered(s)
                    /\ pc'[s] = "L1038"
                    /\ normalize'[s] = hc[h].normalize
            /\ pc[s] \notin {"unborn", "L1038"} => pc'[s] # "L1038"
            /\ pc[s] # "unborn" => pc'[s] # "unborn"]_vars

\* every accepted submission of the run has its pipeline running
C17_Witness ==
    /\ Cardinality(Sessions) > 1
    /\ \A s \in Sessions : pc[s] \notin {"unborn", "exited"}
    /\ \A h \in Handlers : hc[h].pc = "idle"

\* C18: when a job has its publish error to report, or has reported it, no
\* partly written or empty file of that job is in the output directory.
C18_NoDebrisAfterPublishError ==
    \A s \in Sessions :
        (pc[s] = "L1111" \/ Sent(s, "Error: Failed to move file")) =>
            \A n \in DOMAIN mp3dir :
                mp3dir[n].job = s => mp3dir[n].file \notin {"partial", "empty"}

\* C19: the artifact of every job that reported "Successfully saved as" is
\* in the output directory as that job wrote it.
C19_PublishedArtifactsNeverCollide ==
    \A s \in Sessions :
        Sent(s, "Successfully saved as") => Published(s, sourceFile[s])

\* C20: checkFileSize rejects exactly when the probe succeeded, its output
\* is a number and the number is greater than 500*1024*1024, and otherwise
\* goes on to the download; a job that is rejected never starts a download.
C20_PreflightRejectsOnlyAboveCeiling ==
    /\ [][\A s \in Sessions :
            (pc[s] = "L1134" /\ pc'[s] # "L1134") =>
                /\ pc'[s] = "L1137" <=>
                       (/\ ~sizeProbe[s].err
                        /\ sizeProbe[s].numeric
                        /\ sizeProbe[s].size > 500 * 1024 * 1024)
                /\ pc'[s] \in {"L1137", "L1159"}]_vars
    /\ [](\A s \in Sessions :
            (pc[s] = "L1137" \/ Sent(s, "Error: File too large (max 500MB)"))
                => (proc[s] = "none" /\ pc[s] \in CleanupPcs \cup {"L1137"}))

\* the probe has answered exactly the ceiling and the check is about to
\* decide
C20_Witness ==
    \E s \in Sessions :
        /\ pc[s] = "L1134"
        /\ sizeProbe[s].numeric
        /\ sizeProbe[s].size = SizeLimit

\* C21: for every input, sanitizeFilename returns a string of the same
\* length in which each reserved character is replaced by one "-" and every
\* other character is unchanged (N reserved characters give N dashes).
C21_SanitizeMapsCharByChar ==
    call.fn = "sanitizeFilename" =>
        /\ Len(call.ret) = Len(call.arg)
        /\ \A i \in 1..Len(call.arg) :
               call.ret[i] = IF call.arg[i] \in ReservedChars
                             THEN "-" ELSE call.arg[i]

\* the episodes of a result whose File is n
EpisodesOf(ret, n) == {i \in 1..Len(ret) : ret[i].File = n}

\* the messages normalizeAudio sends after its marker
NormalizationTexts ==
    NormErrorTexts \cup {"FFmpeg output", "Normalization complete!"}

\* the position of the transcoding marker among the messages of s
MarkerAt(s) ==
    CHOOSE t \in 1..Len(sent[s]) :
        sent[s][t] = "Converting to MP3 format with optimal quality..."

C23_ReadersSeeOnlyCompleteFiles ==
    LET episodes == getEpisodes(mp3dir, {})
    IN \A i \in 1..Len(episodes) :
           mp3dir[episodes[i].File].file \notin {"empty", "partial"}

\* C27: no process panics, and when a channel is closed no streamOutput
\* goroutine of its session is still running (reading or about to send).
C27_NoSendOnClosedChannel ==
    /\ ~crashed
    /\ \A s \in Sessions :
           closed[s] => \A f \in Streams : fw[s][f] \in {"off", "done"}

\* C28: a page that follows a successful run keeps its EventSource open
\* until it has handled DONE: it never closes it on an earlier message.
C28_PageListensUntilDone ==
    \A b \in DOMAIN evtSource :
        ~(/\ evtSource[b].state = "closed"
          /\ Sent(evtSource[b].id, "Conversion complete!"))

\* the positions of convertVideo and its helpers in the order of the stages
StageOrder ==
    <<"unborn", "L1038", "L1041", "L1043", "L1053", "L1055", "L1060",
      "L1134", "L1137", "L1159", "L1161", "L1167", "L1172", "L1188",
      "L1189", "L1194", "L1197", "L1199", "L1204", "L1070", "L1072",
      "L1080", "L1091", "L1093", "L1094", "L1213", "L1226", "L1228",
      "L1229", "L1235", "L1241", "L1245", "L1104", "L1109", "L1293",
      "L1111", "L1115", "L1116", "L1117", "L1047", "L1032", "L1033",
      "L1035", "exited">>

Rank(p) == CHOOSE i \in 1..Len(StageOrder) : StageOrder[i] = p

\* C29: every step of a pipeline moves it to a later position, so no stage
\* is entered twice and the download subprocess is started at most once;
\* the size probe follows a fetched title, the download a size check that
\* did not reject, the transcode a download that exited zero and left a
\* file, the publish a transcode that wrote converted.mp3; a job whose
\* title fetch failed or that was rejected as too large has started no
\* download and transcoded nothing.
C29_StagesRunOnceInOrder ==
    /\ [](\A s \in Sessions :
            /\ pc[s] \in {StageOrder[i] : i \in 1..Len(StageOrder)}
            /\ pc[s] \in {"L1080", "L1091"} =>
                   proc[s] = "exit0" /\ tmpDir[s].orig
            /\ pc[s] \in {"L1109", "L1293"} =>
                   tmpDir[s].converted # "absent"
            /\ (\/ Sent(s, "Error: Failed to get video title")
                \/ Sent(s, "Error: File too large (max 500MB)")) =>
                   /\ proc[s] = "none"
                   /\ \A f \in Streams : fw[s][f] = "off"
                   /\ tmpDir[s].converted = "absent"
                   /\ \A n \in DOMAIN mp3dir : mp3dir[n].job # s)
    /\ [][\A s \in Sessions :
            /\ pc'[s] # pc[s] => Rank(pc'[s]) > Rank(pc[s])
            /\ (pc'[s] # pc[s] /\ pc'[s] = "L1060") => pc[s] = "L1053"
            /\ (pc'[s] # pc[s] /\ pc'[s] = "L1159") =>
                   pc[s] = "L1134" /\ ~TooLarge(sizeProbe[s])
            /\ proc'[s] # proc[s] =>
                   \/ proc[s] = "none" /\ pc[s] = "L1159"
                   \/ proc[s] = "running" /\ proc'[s] \in {"exit0", "exit1"}
            /\ (pc'[s] # pc[s] /\ pc'[s] = "L1109") =>
                   tmpDir'[s].converted # "absent"]_vars

\* a job has gone through every stage, normalization included, and returned
C29_Witness ==
    \E s \in Sessions :
        /\ pc[s] = "exited"
        /\ Sent(s, "Normalization complete!")
        /\ Sent(s, "DONE")
        /\ proc[s] = "exit0"
        /\ \E n \in DOMAIN mp3dir : mp3dir[n] = FileOf(s, "normalized")

\* C30: a consumer that is attached to a channel can always be served: the
\* events still buffered on its channel remain receivable, whether or not
\* the registry entry has been removed, until it has seen the closure.
C30_AttachedConsumerIsServed ==
    \A c \in DOMAIN hp :
        (hp[c].pc = "L889" /\ hp[c].ch # NoId /\ Buffered(hp[c].ch) > 0)
            => ~crashed

\* C24 as stated: deleteEpisode(f) with f in MP3Dir removes exactly that
\* file and returns no error; with f absent it returns an error and leaves
\* MP3Dir unchanged.
C24_DeleteRemovesPresentFile ==
    call.fn = "deleteEpisode" =>
        IF call.arg.filename \in DOMAIN call.arg.dir
        THEN /\ call.ret = "nil"
             /\ mp3dir = MapDelete(call.arg.dir, call.arg.filename)
        ELSE /\ call.ret # "nil"
             /\ mp3dir = call.arg.dir

\* C24 amended: deleteEpisode(f) with f in MP3Dir removes exactly that file
\* and returns no error when os.Stat and os.Remove succeed, and otherwise
\* returns an error and leaves MP3Dir unchanged; with f absent it returns an
\* error and leaves MP3Dir unchanged; a delete that follows a successful
\* delete of the same name returns an error.
C24_DeleteRemovesOrReports ==
    /\ [](call.fn = "deleteEpisode" =>
            IF /\ call.arg.filename \in DOMAIN call.arg.dir
               /\ call.arg.how = "removed"
            THEN /\ call.ret = "nil"
                 /\ mp3dir = MapDelete(call.arg.dir, call.arg.filename)
            ELSE /\ call.ret # "nil"
                 /\ mp3dir = call.arg.dir)
    /\ [][(/\ call.fn = "deleteEpisode"
           /\ call.ret = "nil"
           /\ call'.fn = "deleteEpisode"
           /\ call'.arg.filename = call.arg.filename)
          => call'.ret = "does not exist"]_vars

\* a second delete of a name right after the delete that removed it
C24_Witness ==
    /\ call.fn = "deleteEpisode"
    /\ call.ret = "does not exist"
    /\ call.arg.dir # EmptyMap
    /\ call.arg.filename = <<"a", ".mp3">>
    /\ <<"b", "_NORM_", "1", ".mp3">> \in DOMAIN mp3dir

\* C25 as stated: getEpisodes returns exactly one Episode for every file of
\* MP3Dir whose name matches *.mp3 and none for any other file; File is the
\* file's name and IsNormalized holds iff the name contains "_NORM_".
C25_OneEpisodePerMp3File ==
    call.fn = "getEpisodes" =>
        /\ \A n \in DOMAIN call.arg.dir :
               Cardinality(EpisodesOf(call.ret, n))
                   = IF HasSuffix(n, <<".mp3">>) THEN 1 ELSE 0
        /\ \A i \in 1..Len(call.ret) :
               /\ call.ret[i].File \in DOMAIN call.arg.dir
               /\ call.ret[i].IsNormalized
                      <=> Contains(call.ret[i].File, <<"_NORM_">>)

\* C25 amended: getEpisodes returns exactly one Episode for every file of
\* MP3Dir whose name matches *.mp3 and whose os.Stat succeeds, and none for
\* any other file; File is the file's name and IsNormalized holds iff the
\* name contains "_NORM_".
C25_OneEpisodePerReadableMp3File ==
    call.fn = "getEpisodes" =>
        /\ \A n \in DOMAIN call.arg.dir :
               Cardinality(EpisodesOf(call.ret, n))
                   = IF HasSuffix(n, <<".mp3">>) /\ n \notin call.arg.unreadable
                     THEN 1 ELSE 0
        /\ \A i \in 1..Len(call.ret) :
               /\ call.ret[i].File \in DOMAIN call.arg.dir
               /\ call.ret[i].IsNormalized
                      <=> Contains(call.ret[i].File, <<"_NORM_">>)

\* a listing of a directory that holds plain, normalized and non-MP3 files
C25_Witness ==
    /\ call.fn = "getEpisodes"
    /\ DOMAIN call.arg.dir = FileNames
    /\ call.arg.unreadable = {}
    /\ Len(call.ret) = Cardinality(GlobMp3(call.arg.dir))
    /\ \E i \in 1..Len(call.ret) : call.ret[i].IsNormalized
    /\ \E i \in 1..Len(call.ret) : ~call.ret[i].IsNormalized

\* what one character becomes in XML text
EscapedChar(c) ==
    CASE c = "&" -> <<"&", "a", "m", "p", ";">>
      [] c = "<" -> <<"&", "l", "t", ";">>
      [] c = ">" -> <<"&", "g", "t", ";">>
      [] OTHER   -> <<c>>

RECURSIVE CharByChar(_)
CharByChar(s) ==
    IF s = <<>> THEN <<>> ELSE EscapedChar(Head(s)) \o CharByChar(Tail(s))

\* C26: escapeXML replaces every & by &amp;, every < by &lt; and every >
\* by &gt;, leaves every other character (quotes included) unchanged and
\* does not escape again the ampersands it has introduced.
C26_EscapeXMLCharByChar ==
    call.fn = "escapeXML" => call.ret = CharByChar(call.arg)

\* an input with an ampersand, an angle bracket and a quote
C26_Witness ==
    /\ call.fn = "escapeXML"
    /\ call.arg = <<"&", "<", "\"">>
    /\ call.ret = <<"&", "a", "m", "p", ";", "&", "l", "t", ";", "\"">>

\* C31: the registry never maps an id to a closed channel (the cleanup
\* deletes the entry before it closes the channel), so the channel a lookup
\* returns is open at the time of the lookup.
C31_RegisteredChannelIsOpen ==
    /\ [](\A id \in DOMAIN progressMap : ~closed[progressMap[id]])
    /\ [][\A c \in DOMAIN hp :
            (hp[c].pc = "L861" /\ hp'[c].pc = "L889")
                => /\ hp'[c].ch = progressMap[hp[c].id]
                   /\ ~closed[hp'[c].ch]]_vars

\* the cleanup has removed the entry and is about to close the channel a
\* consumer obtained from the registry before
C31_Witness ==
    \E s \in Sessions, c \in DOMAIN hp :
        /\ pc[s] = "L1035"
        /\ ~Registered(s)
        /\ ~closed[s]
        /\ hp[c].pc = "L889"
        /\ hp[c].ch = s

\* C32: a complete file of MP3Dir is listed with IsNormalized = true (its
\* name carries "_NORM_") if and only if its content is the output of a
\* successful normalization pass.
C32_MarkerMeansNormalized ==
    LET episodes == getEpisodes(mp3dir, {})
    IN \A i \in 1..Len(episodes) :
           mp3dir[episodes[i].File].file \in {"converted", "normalized"} =>
               (episodes[i].IsNormalized
                    <=> mp3dir[episodes[i].File].file = "normalized")

\* C33: with two consumers attached to the channel of one session, the
\* receives return the emitted events one by one in emission order, each to
\* the one consumer that received it, and both consumers can go on to
\* receive what is buffered and to observe the closure.
C33_TwoConsumersShareTheStream ==
    \A s \in Sessions :
        /\ Len(events[s]) = rcvd[s]
        /\ \A i \in 1..Len(events[s]) : events[s][i] = sent[s][i]
        /\ \A c, d \in DOMAIN hp :
               (/\ c # d
                /\ hp[c].pc = "L889" /\ hp[c].ch = s
                /\ hp[d].pc = "L889" /\ hp[d].ch = s)
               => ~crashed

\* the errors of the title fetch, the size preflight, the download and the
\* transcoding
EarlyFailureTexts ==
    {"Error: Failed to get video title",
     "Error: File too large (max 500MB)",
     "Error: Failed to create stdout pipe",
     "Error: Failed to create stderr pipe",
     "Error: Failed to start download",
     "Error: Download failed",
     "Error: Failed to check for downloaded files",
     "Error: No files were downloaded",
     "Error: No audio file found after download",
     "Error: MP3 conversion failed"}

\* the positions inside moveToFinalDestination
PublishPcs == {"L1109", "L1293"}

\* C34: a job that fails in the title fetch, the size preflight, the
\* download or the transcoding never calls moveToFinalDestination and has no
\* file in MP3Dir, and every step that creates, modifies or removes a file
\* of MP3Dir is a step of moveToFinalDestination of a job without such a
\* failure.
C34_FailedJobLeavesMP3DirUnchanged ==
    /\ [](\A s \in Sessions :
            SentIn(s, EarlyFailureTexts) =>
                /\ pc[s] \in CleanupPcs \cup {"L1094"}
                /\ dstFile[s] = NoDest
                /\ \A n \in DOMAIN mp3dir : mp3dir[n].job # s)
    /\ [][mp3dir' # mp3dir =>
            \E s \in Sessions :
                /\ pc[s] \in PublishPcs
                /\ pc'[s] # pc[s]
                /\ ~SentIn(s, EarlyFailureTexts)]_vars

\* a job has ended on a failed transcode while the file another job
\* published is in MP3Dir
C34_Witness ==
    \E s, t \in Sessions :
        /\ s # t
        /\ Sent(s, "Error: MP3 conversion failed")
        /\ pc[s] = "exited"
        /\ tmpDir[s] = NoTmpDir
        /\ Sent(t, "Successfully saved as")
        /\ \E n \in DOMAIN mp3dir : mp3dir[n].job = t

\* a delete request that handleDelete lets through to deleteEpisode
ValidDelete(method, filename) ==
    /\ method = "POST"
    /\ filename # <<>>
    /\ \A i \in 1..Len(filename) : filename[i] \notin {"/", "\\"}
    /\ filename[Len(filename)] \in {".mp3", ".MP3"}

\* a step that answers a delete request
DeleteStep ==
    /\ call'.fn = "handleDelete"
    /\ UNCHANGED <<hc, pc, proc, fw, tmpDir>>
    /\ call' # call \/ mp3dir' # mp3dir

\* C35: a delete request changes MP3Dir only by removing the one file named
\* by its filename, and only when it is a POST whose filename is not empty,
\* holds no "/" and no "\" and ends in ".mp3" in any case; every other
\* request, and every request answered with an error, leaves MP3Dir
\* unchanged; no delete request touches the registry, its mutex or a
\* session's channel.
C35_DeleteRemovesOnlyTheNamedFile ==
    [][DeleteStep =>
        LET method == call'.arg.method
            filename == call'.arg.filename
        IN /\ UNCHANGED <<progressMap, progressMux, nextId, sent, rcvd,
                          closed>>
           /\ mp3dir' # mp3dir =>
                 /\ ValidDelete(method, filename)
                 /\ filename \in DOMAIN mp3dir
                 /\ mp3dir' = MapDelete(mp3dir, filename)
                 /\ call'.ret = "File deleted successfully"
           /\ ~ValidDelete(method, filename) => mp3dir' = mp3dir
           /\ call'.ret # "File deleted successfully" => mp3dir' = mp3dir
           /\ call'.ret = "File deleted successfully" =>
                 /\ filename \in DOMAIN mp3dir
                 /\ filename \notin DOMAIN mp3dir']_vars

\* a file with an upper-case extension was deleted while a session was
\* registered and the other files are still there
C35_Witness ==
    /\ call.fn = "handleDelete"
    /\ call.ret = "File deleted successfully"
    /\ call.arg.filename = <<"x", "_", "1", ".MP3">>
    /\ progressMap # EmptyMap
    /\ DOMAIN mp3dir = OldNames \ {<<"x", "_", "1", ".MP3">>}

====
